---- MODULE Spec2Model ----
(***************************************************************************)
(* Model of the prayer notification scheduler of the Islamic Shoky editor  *)
(* extension (src/extension.js, class SidebarProvider): the timers that    *)
(* _schedulePrayerNotifications registers with the host's setTimeout, the  *)
(* _prayerTimeouts map that tracks them, _clearPrayerTimeouts, the timer   *)
(* callbacks (_showPrayerNotification) and deactivate; and of the reminder *)
(* ticker of the same class (_startReminderSystem, its repeating timer and *)
(* one-shot timer, _playReminderIfQuranNotActive, _playReminderAudio,      *)
(* _stopReminderSystem) with the Quran playback state it reads.            *)
(*                                                                         *)
(* Time is an absolute number of seconds since local midnight of day 0;    *)
(* days are uniform (no daylight-saving change).  The two clock reads of   *)
(* _schedulePrayerNotifications (`now` and the `new Date()` of the loop    *)
(* body) happen in the same callback turn and are modelled as one read.    *)
(***************************************************************************)
EXTENDS Integers, Sequences, FiniteSets, TLC

VARIABLES
    clock,           \* the host clock, seconds since midnight of day 0
    config,          \* the settings _getConfiguration reads
    prayerTimeouts,  \* this._prayerTimeouts: key -> timer handle
    timers,          \* the host's timer table: handle -> timer record
    notifications,   \* the Notifier calls made so far, in order
    deactivated,     \* deactivate() has run
    hist,            \* the operations performed so far (history)
    platform,        \* process.platform
    currentAudioState,     \* this._currentAudioState
    audioProcess,          \* this._audioProcess: a child process or null
    audioStatusCheck,      \* this._audioStatusCheck: a timer handle or null
    reminderInterval,      \* this._reminderInterval: a timer handle or null
    reminderAudioProcess,  \* this._reminderAudioProcess: a child process or null
    processes,       \* the child processes spawned so far
    ticks,           \* the ticker callbacks run so far (history)
    timerProvider,   \* the fields of the TimerDataProvider of the Explorer
    countdowns,      \* the host's live intervals of the pomodoro timer
    prompts,         \* the completion prompts not answered yet
    tasksProvider,   \* the fields of the TasksDataProvider of the Explorer
    webview,         \* the variables of the script of the sidebar webview
    localStorage,    \* the localStorage of the webview
    channel,         \* the messages posted by the webview, not handled yet
    azkar,           \* the azkar rotation of the script of the sidebar webview
    prayerProvider   \* the fields of the PrayerDataProvider of the Explorer

\* The fields and the environment of the reminder ticker and of the Quran
\* playback
audioVars == <<platform, currentAudioState, audioProcess, audioStatusCheck,
               reminderInterval, reminderAudioProcess, processes, ticks>>

\* The pomodoro timer of the Explorer panel
timerVars == <<timerProvider, countdowns, prompts>>

\* The todo list of the webview and its mirror in the Explorer panel
todoVars == <<tasksProvider, webview, localStorage, channel>>

panelVars == <<timerProvider, countdowns, prompts,
               tasksProvider, webview, localStorage, channel, azkar,
               prayerProvider>>

vars == <<clock, config, prayerTimeouts, timers, notifications, deactivated, hist,
          platform, currentAudioState, audioProcess, audioStatusCheck,
          reminderInterval, reminderAudioProcess, processes, ticks,
          timerProvider, countdowns, prompts,
          tasksProvider, webview, localStorage, channel, azkar,
               prayerProvider>>

----------------------------------------------------------------------------
(* Bounds of the model *)

MaxOps == 3          \* messages, setting changes, calls and process events handled
MaxAdvances == 2     \* times the clock moves on to the next timer
MaxTickerOps == 2    \* of these, the ones handled next to the reminder ticker
MaxTicks == 2        \* callbacks of the reminder ticker run
MaxCallbacks == 3    \* single callbacks of the pomodoro intervals run
MaxTodoOps == 4      \* events handled by the webview's todo list
MaxPanelOps == 3     \* events handled by the Next Prayer panel
MaxAzkarOps == 4     \* events handled by the azkar rotation
MaxPlaybackOps == 4  \* events handled by the Quran playback

----------------------------------------------------------------------------
(* Program constants *)

SecPerMinute == 60
SecPerHour == 3600
SecPerDay == 86400
\* Node's setTimeout takes a delay of at most 2^31 - 1 ms (2147483.647 s);
\* a longer delay is replaced by 1 ms.
TIMEOUT_MAX_SEC == 2147483
EndedDelaySec == 10
DefaultReminderDelay == 5

Prayers == <<"Fajr", "Dhuhr", "Asr", "Maghrib", "Isha">>

PrayerNames == {Prayers[i] : i \in 1..Len(Prayers)}

Key(prayer, kind) == <<prayer, kind>>

PrayerKeys == {Key(p, k) : p \in PrayerNames, k \in {"prayer", "reminder"}}

----------------------------------------------------------------------------
(* JavaScript values of a timings entry.  A string is the sequence of its  *)
(* characters; the other values carry their type only.                     *)

Str(chars) == [type |-> "string", chars |-> chars]
Undefined == [type |-> "undefined", chars |-> <<>>]
NonZeroNumber == [type |-> "number", chars |-> <<>>]

Digits == <<"0", "1", "2", "3", "4", "5", "6", "7", "8", "9">>

IsDigit(c) == \E i \in 1..10 : Digits[i] = c

DigitVal(c) == (CHOOSE i \in 1..10 : Digits[i] = c) - 1

\* The "HH:MM" string the timings API sends for a time of day.
TimeString(h, m) ==
    Str(<<Digits[(h \div 10) + 1], Digits[(h % 10) + 1], ":",
          Digits[(m \div 10) + 1], Digits[(m % 10) + 1]>>)

\* JavaScript numbers that are integers, and NaN.
Num(v) == [isNaN |-> FALSE, v |-> v]
NaN == [isNaN |-> TRUE, v |-> 0]

\* A plausible fault: the guard against a missing entry is absent.
NeverFalsy(value) == FALSE

\* `!prayerTime`
IsFalsy(value) ==
    \/ value.type \in {"undefined", "null"}
    \/ value.type = "string" /\ value.chars = <<>>

RECURSIVE TrimLeft(_)
TrimLeft(s) == IF s # <<>> /\ Head(s) = " " THEN TrimLeft(Tail(s)) ELSE s

RECURSIVE TrimRight(_)
TrimRight(s) ==
    IF s # <<>> /\ s[Len(s)] = " " THEN TrimRight(SubSeq(s, 1, Len(s) - 1)) ELSE s

RECURSIVE DigitsValue(_)
DigitsValue(s) ==
    IF s = <<>> THEN 0
    ELSE 10 * DigitsValue(SubSeq(s, 1, Len(s) - 1)) + DigitVal(s[Len(s)])

\* Number(string) on strings over digits, blanks, signs, ":" "(" ")" and
\* the letters "T" "Z": white space is trimmed, the empty string is 0, an
\* optionally signed run of digits is its value, everything else is NaN.
Number(s) ==
    LET t == TrimRight(TrimLeft(s))
        signed == t # <<>> /\ Head(t) \in {"+", "-"}
        body == IF signed THEN Tail(t) ELSE t
    IN  IF t = <<>> THEN Num(0)
        ELSE IF body = <<>> \/ \E i \in 1..Len(body) : ~IsDigit(body[i]) THEN NaN
        ELSE IF signed /\ Head(t) = "-" THEN Num(0 - DigitsValue(body))
        ELSE Num(DigitsValue(body))

\* String.prototype.split(":")
RECURSIVE Split(_)
Split(s) ==
    IF \A i \in 1..Len(s) : s[i] # ":" THEN <<s>>
    ELSE LET i == CHOOSE j \in 1..Len(s) :
                     s[j] = ":" /\ \A k \in 1..(j - 1) : s[k] # ":"
         IN  <<SubSeq(s, 1, i - 1)>> \o Split(SubSeq(s, i + 1, Len(s)))

\* const [hours, minutes] = prayerTime.split(":").map(Number)
\* (a missing second part is undefined, which setHours converts to NaN)
ParseHours(chars) == Number(Split(chars)[1])

ParseMinutes(chars) ==
    LET parts == Split(chars)
    IN  IF Len(parts) >= 2 THEN Number(parts[2]) ELSE NaN

StartOfDay(t) == t - (t % SecPerDay)

\* new Date() followed by setHours(hours, minutes, 0, 0)
SetHours(now, hours, minutes) ==
    IF hours.isNaN \/ minutes.isNaN THEN NaN
    ELSE Num(StartOfDay(now) + hours.v * SecPerHour + minutes.v * SecPerMinute)

\* A plausible fault: the comparison of the "schedule for tomorrow" step is
\* reversed.
HasNotPassed(prayerDateTime, now) == ~prayerDateTime.isNaN /\ prayerDateTime.v >= now

\* `if (prayerDateTime <= now)`: a comparison with NaN is false
HasPassed(prayerDateTime, now) == ~prayerDateTime.isNaN /\ prayerDateTime.v <= now

\* prayerDateTime after the "schedule for tomorrow" step
PrayerDateTime(chars, now) ==
    LET today == SetHours(now, ParseHours(chars), ParseMinutes(chars))
    IN  IF HasPassed(today, now) THEN Num(today.v + SecPerDay) ELSE today

\* A plausible fault: a reminder is computed only for a delay above zero.
ReminderOnlyAfterPrayer(prayerDateTime, delayMinutes) ==
    IF prayerDateTime.isNaN \/ delayMinutes = 0 THEN NaN
    ELSE Num(prayerDateTime.v + delayMinutes * SecPerMinute)

\* reminderTime = prayerDateTime + prayerReminderDelay * 60 * 1000 ms
ReminderTime(prayerDateTime, delayMinutes) ==
    IF prayerDateTime.isNaN THEN NaN
    ELSE Num(prayerDateTime.v + delayMinutes * SecPerMinute)

\* `dateTime - now`
TimeUntil(dateTime, now) == IF dateTime.isNaN THEN NaN ELSE Num(dateTime.v - now)

\* `if (timeUntil > 0)`
IsPositive(n) == ~n.isNaN /\ n.v > 0

----------------------------------------------------------------------------
(* The host's timers.  A handle is the index of its record in `timers`.    *)

\* setTimeout(callback, delay) called at `now` by invocation `call` of
\* _schedulePrayerNotifications (0: by a callback).  A delay above the
\* host's maximum becomes 1 ms, which is due within the current second.
\* The fields cleared and dueAtClear are history: _clearPrayerTimeouts has
\* run since the registration, and it cancelled the timer when it was due.
SetTimeout(tbl, key, delaySec, now, call) ==
    Append(tbl, [key |-> key,
                 fireAt |-> IF delaySec > TIMEOUT_MAX_SEC THEN now ELSE now + delaySec,
                 regAt |-> now,
                 call |-> call,
                 cleared |-> FALSE,
                 dueAtClear |-> FALSE,
                 status |-> "live"])

\* clearTimeout(handle): cancels a live timer, changes nothing otherwise
ClearTimeout(tbl, h) ==
    IF tbl[h].status = "live" THEN [tbl EXCEPT ![h].status = "cancelled"] ELSE tbl

EmptyMap == <<>>

Handles(map) == {map[k] : k \in DOMAIN map}

\* this._prayerTimeouts.set(key, handle)
MapSet(map, key, h) == [k \in (DOMAIN map) \cup {key} |-> IF k = key THEN h ELSE map[k]]

----------------------------------------------------------------------------
(* The scheduler.  Its methods act on st = [map, timers, thrown]: the      *)
(* _prayerTimeouts map, the host's timer table and whether the method has  *)
(* raised an exception.                                                    *)

\* A plausible fault: the map is emptied and the timers are left running.
ClearMapOnly(st) == [st EXCEPT !.map = EmptyMap]

\* A plausible fault: the timers are cancelled and the map keeps its entries.
CancelOnly(st) ==
    [st EXCEPT !.timers = [h \in DOMAIN st.timers |->
        IF h \in Handles(st.map) /\ st.timers[h].status = "live"
        THEN [st.timers[h] EXCEPT !.status = "cancelled"]
        ELSE st.timers[h]]]

\* _clearPrayerTimeouts(): clearTimeout on every handle of the map, then
\* this._prayerTimeouts.clear()
ClearPrayerTimeouts(st) ==
    [st EXCEPT !.timers = [h \in DOMAIN st.timers |->
                              IF h \in Handles(st.map)
                              THEN ClearTimeout(st.timers, h)[h]
                              ELSE st.timers[h]],
               !.map = EmptyMap]

\* A plausible fault: the existing timers are not cleared before scheduling.
KeepExisting(st) == st

\* "Clear existing timeouts" at the start of _schedulePrayerNotifications
ClearExisting(st) == ClearPrayerTimeouts(st)

\* const t = setTimeout(...); this._prayerTimeouts.set(key, t)
Register(st, key, delaySec, now, call) ==
    [st EXCEPT !.timers = SetTimeout(st.timers, key, delaySec, now, call),
               !.map = MapSet(st.map, key, Len(st.timers) + 1)]

\* `prayerTime.split` raises a TypeError on a value that is not a string
SplitThrows(value) == value.type # "string"

\* The body of prayers.forEach for one prayer
SchedulePrayer(st, prayer, value, now, cfg, call) ==
    IF IsFalsy(value) THEN st
    ELSE IF SplitThrows(value) THEN [st EXCEPT !.thrown = TRUE]
    ELSE
      LET prayerDateTime == PrayerDateTime(value.chars, now)
          timeUntilPrayer == TimeUntil(prayerDateTime, now)
          st1 == IF IsPositive(timeUntilPrayer)
                 THEN Register(st, Key(prayer, "prayer"), timeUntilPrayer.v,
                               now, call)
                 ELSE st
          reminderTime == ReminderTime(prayerDateTime, cfg.prayerReminderDelay)
          timeUntilReminder == TimeUntil(reminderTime, now)
      IN  IF IsPositive(timeUntilReminder)
          THEN Register(st1, Key(prayer, "reminder"), timeUntilReminder.v,
                        now, call)
          ELSE st1

\* prayers.forEach(...): an exception raised by the callback ends the loop
RECURSIVE ForEachPrayer(_, _, _, _, _, _)
ForEachPrayer(i, st, prayerTimes, now, cfg, call) ==
    IF i > Len(Prayers) \/ st.thrown THEN st
    ELSE ForEachPrayer(i + 1,
                       SchedulePrayer(st, Prayers[i], prayerTimes[Prayers[i]],
                                      now, cfg, call),
                       prayerTimes, now, cfg, call)

\* A plausible fault: the setting is not looked at before scheduling.
ScheduleRegardless(st, prayerTimes, now, cfg, call) ==
    ForEachPrayer(1, ClearExisting(st), prayerTimes, now, cfg, call)

\* _schedulePrayerNotifications(prayerTimes)
SchedulePrayerNotifications(st, prayerTimes, now, cfg, call) ==
    IF ~cfg.enablePrayerNotifications THEN st
    ELSE ForEachPrayer(1, ClearExisting(st), prayerTimes, now, cfg, call)

----------------------------------------------------------------------------
(* Child processes.  A process is the index of its record in `processes`;  *)
(* a field that holds no process or no timer handle is Null.               *)

Null == 0

Platforms == {"win32", "darwin", "linux"}

\* The outcomes of child_process.spawn: a running process, a process object
\* whose program could not be started (it has no pid and emits 'error'
\* later), and an exception raised by spawn itself
SpawnOutcomes == {"started", "failed", "throws"}

\* spawn(...) that returned a process object
Spawn(procs, kind, outcome) ==
    Append(procs, [kind |-> kind,
                   status |-> IF outcome = "started" THEN "running" ELSE "failed",
                   listeners |-> FALSE])

\* process.kill()
Kill(procs, p) ==
    IF procs[p].status = "running" THEN [procs EXCEPT ![p].status = "killed"]
    ELSE procs

\* process.on("close", ...) and process.on("error", ...)
Listen(procs, p) == [procs EXCEPT ![p].listeners = TRUE]

----------------------------------------------------------------------------
(* The reminder ticker and the Quran playback it yields to.  Their methods *)
(* act on pv, the fields of the provider together with the host's timers,  *)
(* the child processes, the Notifier calls and whether an exception is     *)
(* being raised.                                                           *)

ReminderIntervalSec == 300
ReminderFirstDelaySec == 300
AudioStatusPeriodSec == 5
RestoreDelaySec == 1

TickerKey(kind) == <<"reminderSystem", kind>>

AudioStatusKey == <<"audioStatus", "interval">>

RestoreKey == <<"restoreAudioState", "timeout">>

\* setInterval(callback, period): the timer stays live when it fires
SetInterval(tbl, key, periodSec, now, call) == SetTimeout(tbl, key, periodSec, now, call)

\* clearInterval(handle)
ClearInterval(tbl, h) == ClearTimeout(tbl, h)

\* vscode.window.showInformationMessage(...) outside a prayer timer
Inform(notes, key, now) ==
    Append(notes, [handle |-> 0, key |-> key, at |-> now, stale |-> FALSE])

\* this._currentAudioState: null, or { isPlaying: true, ... } with or
\* without isWebviewFallback
NullAudioState == [isNull |-> TRUE, isPlaying |-> FALSE, isWebviewFallback |-> FALSE]

PlayingState(fallback) ==
    [isNull |-> FALSE, isPlaying |-> TRUE, isWebviewFallback |-> fallback]

\* A plausible fault: stopping the reminder cue also resets the playback
\* state.
StopEveryAudio(pv) ==
    [pv EXCEPT !.processes = IF pv.reminderAudioProcess = Null THEN @
                             ELSE Kill(@, pv.reminderAudioProcess),
               !.reminderAudioProcess = Null,
               !.audioProcess = Null,
               !.currentAudioState = NullAudioState]

\* _stopReminderAudio()
StopReminderAudio(pv) ==
    IF pv.reminderAudioProcess = Null THEN pv
    ELSE [pv EXCEPT !.processes = Kill(@, pv.reminderAudioProcess),
                    !.reminderAudioProcess = Null]

\* _stopBackgroundAudio()
StopBackgroundAudio(pv, now) ==
    IF pv.audioProcess = Null THEN pv
    ELSE [pv EXCEPT !.processes = Kill(@, pv.audioProcess),
                    !.audioProcess = Null,
                    !.currentAudioState = NullAudioState,
                    !.timers = IF pv.audioStatusCheck = Null THEN @
                               ELSE ClearInterval(@, pv.audioStatusCheck),
                    !.audioStatusCheck = Null,
                    !.notifications = Inform(@, <<"Quran", "stopped">>, now)]

\* _startAudioStatusCheck()
StartAudioStatusCheck(pv, now) ==
    [pv EXCEPT !.timers = SetInterval(@, AudioStatusKey, AudioStatusPeriodSec, now, 0),
               !.audioStatusCheck = Len(pv.timers) + 1]

\* _setupAudioProcessHandlers(surah, reciter, audioUrl)
SetupAudioProcessHandlers(pv, now) ==
    StartAudioStatusCheck(
        [pv EXCEPT !.currentAudioState = PlayingState(FALSE),
                   !.notifications = Inform(@, <<"Quran", "playing">>, now),
                   !.processes = Listen(@, pv.audioProcess)],
        now)

\* _fallbackToWebviewAudio(audioUrl, surah, reciter)
FallbackToWebviewAudio(pv, now) ==
    [pv EXCEPT !.currentAudioState = PlayingState(TRUE),
               !.notifications = Inform(@, <<"Quran", "browser mode">>, now)]

LinuxAudioPlayers == <<"mpv", "mpg123", "cvlc", "ffplay", "mplayer", "paplay", "wget">>

\* _tryLinuxAudioPlayers(audioUrl, surah, reciter): outcomes[i] is the
\* outcome of the spawn of player i
RECURSIVE TryLinuxAudioPlayers(_, _, _, _)
TryLinuxAudioPlayers(i, pv, outcomes, now) ==
    IF i > Len(LinuxAudioPlayers) THEN FallbackToWebviewAudio(pv, now)
    ELSE IF outcomes[i] = "throws"
    THEN TryLinuxAudioPlayers(i + 1, [pv EXCEPT !.audioProcess = Null], outcomes, now)
    ELSE LET spawned == [pv EXCEPT !.processes = Spawn(@, "quran", outcomes[i]),
                                   !.audioProcess = Len(pv.processes) + 1]
         IN  IF outcomes[i] = "started" THEN SetupAudioProcessHandlers(spawned, now)
             ELSE TryLinuxAudioPlayers(i + 1, spawned, outcomes, now)

\* _playQuranBackground(audioUrl, surah, reciter)
PlayQuranBackground(pv, outcomes, now, pf) ==
    LET stopped == StopReminderAudio(StopBackgroundAudio(pv, now))
    IN  IF pf = "linux" THEN TryLinuxAudioPlayers(1, stopped, outcomes, now)
        ELSE IF outcomes[1] = "throws" THEN FallbackToWebviewAudio(stopped, now)
        ELSE SetupAudioProcessHandlers(
                 [stopped EXCEPT !.processes = Spawn(@, "quran", outcomes[1]),
                                 !.audioProcess = Len(stopped.processes) + 1],
                 now)

ReminderPlayers == <<"mpg123", "mpg321", "play", "aplay", "cvlc">>

\* The loop over the players of _playReminderAudio: the first spawn that
\* returns ends it, a spawn that throws is skipped
RECURSIVE TryReminderPlayers(_, _, _)
TryReminderPlayers(i, pv, outcomes) ==
    IF i > Len(ReminderPlayers) THEN pv
    ELSE IF outcomes[i] = "throws" THEN TryReminderPlayers(i + 1, pv, outcomes)
    ELSE [pv EXCEPT !.processes = Spawn(@, "reminder", outcomes[i]),
                    !.reminderAudioProcess = Len(pv.processes) + 1]

\* The platform branches of _playReminderAudio
SpawnReminder(pv, outcomes, pf) ==
    IF pf = "linux" THEN TryReminderPlayers(1, pv, outcomes)
    ELSE IF outcomes[1] = "throws" THEN [pv EXCEPT !.thrown = TRUE]
    ELSE [pv EXCEPT !.processes = Spawn(@, "reminder", outcomes[1]),
                    !.reminderAudioProcess = Len(pv.processes) + 1]

\* `if (this._reminderAudioProcess) { ...on("close")...on("error")...
\* showInformationMessage(...) } else { console.log(...) }`
AnnounceReminder(pv, now) ==
    IF pv.reminderAudioProcess = Null THEN pv
    ELSE [pv EXCEPT !.processes = Listen(@, pv.reminderAudioProcess),
                    !.notifications = Inform(@, TickerKey("reminder"), now)]

\* `catch (error) { console.log(...) }`
Caught(pv) == [pv EXCEPT !.thrown = FALSE]

\* _playReminderAudio()
PlayReminderAudio(pv, outcomes, now, pf) ==
    LET spawned == SpawnReminder(StopReminderAudio(pv), outcomes, pf)
    IN  IF spawned.thrown THEN Caught(spawned) ELSE AnnounceReminder(spawned, now)

\* `this._currentAudioState && this._audioProcess`
QuranActive(audioState, process) == ~audioState.isNull /\ process # Null

\* A plausible fault: the tick does not look at the playback.
PlayReminderAlways(pv, outcomes, now, pf) == PlayReminderAudio(pv, outcomes, now, pf)

\* _playReminderIfQuranNotActive()
PlayReminderIfQuranNotActive(pv, outcomes, now, pf) ==
    IF ~QuranActive(pv.currentAudioState, pv.audioProcess)
    THEN PlayReminderAudio(pv, outcomes, now, pf)
    ELSE pv

\* _startReminderSystem(): the handle of the interval is kept, the one of
\* the timeout is not
StartReminderSystem(pv, now) ==
    [pv EXCEPT !.timers = SetTimeout(SetInterval(@, TickerKey("interval"),
                                                 ReminderIntervalSec, now, 0),
                                     TickerKey("timeout"), ReminderFirstDelaySec,
                                     now, 0),
               !.reminderInterval = Len(pv.timers) + 1]

\* _stopReminderSystem()
StopReminderSystem(pv) ==
    StopReminderAudio(
        IF pv.reminderInterval = Null THEN pv
        ELSE [pv EXCEPT !.timers = ClearInterval(@, pv.reminderInterval),
                        !.reminderInterval = Null])

----------------------------------------------------------------------------
(* The pomodoro timer of the Explorer panel (TimerDataProvider).  Its      *)
(* methods act on tm = [p, live, made, prompts]: the fields of the         *)
(* provider, the host's live intervals of the timer in the order in which  *)
(* their callbacks run next, the number of intervals created so far and    *)
(* the completion prompts that have not been answered.                     *)

DefaultFocusDuration == 25
DefaultBreakDuration == 5

\* The fields after new TimerDataProvider(context)
NewTimerDataProvider ==
    [isRunning |-> FALSE,
     isPaused |-> FALSE,
     remainingTime |-> 25 * SecPerMinute,
     totalTime |-> 25 * SecPerMinute,
     timerType |-> "Focus",
     interval |-> Null,
     pomodoroCount |-> 0]

\* resetTimer()
ResetTimer(tm, cfg) ==
    LET total == IF tm.p.timerType = "Focus"
                 THEN cfg.focusDuration * SecPerMinute
                 ELSE cfg.breakDuration * SecPerMinute
    IN  [tm EXCEPT !.p.totalTime = total, !.p.remainingTime = total]

\* startTimer(): this.interval = setInterval(..., 1000), whatever
\* this.interval held
StartTimer(tm, cfg) ==
    LET reset == IF tm.p.remainingTime = 0 THEN ResetTimer(tm, cfg) ELSE tm
    IN  [reset EXCEPT !.p.isRunning = TRUE,
                      !.p.isPaused = FALSE,
                      !.p.interval = tm.made + 1,
                      !.live = Append(@, tm.made + 1),
                      !.made = @ + 1]

\* if (this.interval) { clearInterval(this.interval); this.interval = null }
ClearOwnInterval(tm) ==
    [tm EXCEPT !.live = SelectSeq(@, LAMBDA id : id # tm.p.interval),
               !.p.interval = Null]

\* pauseTimer()
PauseTimer(tm) ==
    IF tm.p.isRunning
    THEN ClearOwnInterval([tm EXCEPT !.p.isRunning = FALSE, !.p.isPaused = TRUE])
    ELSE tm

\* stopTimer()
StopTimer(tm, cfg) ==
    ResetTimer(ClearOwnInterval([tm EXCEPT !.p.isRunning = FALSE,
                                           !.p.isPaused = FALSE]),
               cfg)

\* completeTimer(): the prompt is shown, its answer comes later
CompleteTimer(tm) ==
    LET stopped == ClearOwnInterval([tm EXCEPT !.p.isRunning = FALSE])
    IN  IF stopped.p.timerType = "Focus"
        THEN [stopped EXCEPT !.p.pomodoroCount = @ + 1,
                             !.p.timerType = "Break",
                             !.prompts = Append(@, "Start Break")]
        ELSE [stopped EXCEPT !.p.timerType = "Focus",
                             !.prompts = Append(@, "Start Focus")]

\* The callback of setInterval in startTimer, run for the interval whose
\* turn it is; the interval then waits a second behind the others
IntervalCallback(tm) ==
    LET turned == [tm EXCEPT !.live = Append(Tail(@), Head(@)),
                             !.p.remainingTime = @ - 1]
    IN  IF turned.p.remainingTime = 0 THEN CompleteTimer(turned) ELSE turned

\* The .then callback of prompt i of completeTimer, once the user has
\* picked `selection` or dismissed the prompt
PromptAnswered(tm, i, selection, cfg) ==
    LET asked == tm.prompts[i]
        rest == [tm EXCEPT !.prompts = SubSeq(@, 1, i - 1) \o SubSeq(@, i + 1, Len(@))]
    IN  IF selection = asked THEN StartTimer(ResetTimer(rest, cfg), cfg)
        ELSE IF asked = "Start Break"
             THEN ResetTimer([rest EXCEPT !.p.timerType = "Focus"], cfg)
             ELSE ResetTimer(rest, cfg)

----------------------------------------------------------------------------
(* The todo list of the sidebar webview and its mirror in the Explorer     *)
(* (TasksDataProvider).  The webview's functions act on wv = [w, storage,  *)
(* channel]: the script's variables, its localStorage and the messages it  *)
(* has posted to the extension.                                            *)

\* The properties of a todo that hold a number and a boolean; text and
\* createdAt hold strings
NumberKeys == {"id"}
BooleanKeys == {"completed"}

\* JSON.stringify of the value of property k of a todo
JsonValue(k, v) ==
    IF k \in BooleanKeys THEN [json |-> "literal", text |-> IF v THEN "true" ELSE "false"]
    ELSE IF k \in NumberKeys THEN [json |-> "number", text |-> v]
    ELSE [json |-> "string", text |-> v]

\* JSON.parse of such a value
ParsedValue(j) ==
    IF j.json = "literal" THEN j.text = "true" ELSE j.text

\* JSON.stringify(todos): an array of objects
Stringify(list) ==
    [i \in DOMAIN list |-> [k \in DOMAIN list[i] |-> JsonValue(k, list[i][k])]]

\* JSON.parse(stored)
Parse(stored) ==
    [i \in DOMAIN stored |-> [k \in DOMAIN stored[i] |-> ParsedValue(stored[i][k])]]

\* localStorage.getItem of a key never set, and of a key set to `text`
NoItem == [isNull |-> TRUE, text |-> <<>>]
Item(text) == [isNull |-> FALSE, text |-> text]

\* vscode.postMessage({command, tasks}): the message carries a copy
PostMessage(wv, command, tasks) ==
    [wv EXCEPT !.channel = Append(@, [command |-> command, tasks |-> Stringify(tasks)])]

\* A plausible fault: the list is announced and not stored.
AnnounceOnly(wv) == PostMessage(wv, "tasksUpdated", wv.w.todos)

\* saveTodos()
SaveTodos(wv) ==
    PostMessage([wv EXCEPT !.storage.islamicShokyTodos = Item(Stringify(wv.w.todos))],
                "tasksUpdated", wv.w.todos)

\* loadTodos()
LoadTodos(wv) ==
    LET stored == wv.storage.islamicShokyTodos
        loaded == IF ~stored.isNull THEN [wv EXCEPT !.w.todos = Parse(stored.text)] ELSE wv
    IN  PostMessage(loaded, "tasksUpdated", loaded.w.todos)

\* The script of the webview as it starts
WebviewLoaded(storage, posted, now) ==
    LoadTodos([w |-> [loaded |-> TRUE, todos |-> <<>>, editingId |-> Null, now |-> now],
               storage |-> storage,
               channel |-> posted])

\* text.trim()
Trim(text) == TrimRight(TrimLeft(text))

\* todos.findIndex(t => t.id === id), 0 when there is none
FindIndex(list, id) ==
    IF \E i \in DOMAIN list : list[i].id = id
    THEN CHOOSE i \in DOMAIN list :
             list[i].id = id /\ \A j \in DOMAIN list : list[j].id = id => i <= j
    ELSE 0

\* addTodo() with `input` typed into the field
AddTodo(wv, input) ==
    LET text == Trim(input)
    IN  IF text = <<>> THEN wv
        ELSE SaveTodos([wv EXCEPT !.w.todos =
                 Append(@, [id |-> wv.w.now, text |-> text, completed |-> FALSE,
                            createdAt |-> wv.w.now])])

\* toggleTodo(id)
ToggleTodo(wv, id) ==
    LET i == FindIndex(wv.w.todos, id)
    IN  IF i = 0 THEN wv
        ELSE SaveTodos([wv EXCEPT !.w.todos[i].completed = ~@])

\* deleteTodo(id)
DeleteTodo(wv, id) ==
    SaveTodos([wv EXCEPT !.w.todos = SelectSeq(@, LAMBDA t : t.id # id)])

\* editTodo(id)
EditTodo(wv, id) ==
    IF FindIndex(wv.w.todos, id) # 0 /\ wv.w.editingId = Null
    THEN [wv EXCEPT !.w.editingId = id]
    ELSE wv

\* saveEdit(id) with `input` in the edit field
SaveEdit(wv, id, input) ==
    LET newText == Trim(input)
        i == FindIndex(wv.w.todos, id)
        saved == IF newText # <<>> /\ i # 0
                 THEN SaveTodos([wv EXCEPT !.w.todos[i].text = newText])
                 ELSE wv
    IN  [saved EXCEPT !.w.editingId = Null]

\* cancelEdit()
CancelEdit(wv) == [wv EXCEPT !.w.editingId = Null]

\* clearCompleted()
ClearCompleted(wv) ==
    IF SelectSeq(wv.w.todos, LAMBDA t : t.completed) # <<>>
    THEN SaveTodos([wv EXCEPT !.w.todos = SelectSeq(@, LAMBDA t : ~t.completed)])
    ELSE wv

\* case 'addTaskToList' of the webview's message listener
AddTaskToList(wv, task) ==
    LET saved == SaveTodos([wv EXCEPT !.w.todos =
                     Append(@, [id |-> wv.w.now, text |-> task.text,
                                completed |-> task.completed])])
    IN  PostMessage(saved, "tasksUpdated", saved.w.todos)

\* case 'toggleTaskInList'
ToggleTaskInList(wv, taskId) ==
    LET i == FindIndex(wv.w.todos, taskId)
        saved == SaveTodos([wv EXCEPT !.w.todos[i].completed = ~@])
    IN  IF i = 0 THEN wv ELSE PostMessage(saved, "tasksUpdated", saved.w.todos)

\* case 'deleteTaskFromList': todos.splice(deleteIndex, 1)
DeleteTaskFromList(wv, taskId) ==
    LET i == FindIndex(wv.w.todos, taskId)
        saved == SaveTodos([wv EXCEPT !.w.todos =
                     SubSeq(@, 1, i - 1) \o SubSeq(@, i + 1, Len(@))])
    IN  IF i = 0 THEN wv ELSE PostMessage(saved, "tasksUpdated", saved.w.todos)

\* A plausible fault: the tasks received are not taken over.
KeepTasks(provider, tasks) == provider

\* TasksDataProvider.updateTasks(tasks): this.tasks = tasks || []
UpdateTasks(provider, tasks) == [provider EXCEPT !.tasks = tasks]

\* _forwardTasksToTasksProvider(message.tasks) on the message as received
ForwardTasksToTasksProvider(provider, message) ==
    UpdateTasks(provider, Parse(message.tasks))

----------------------------------------------------------------------------
(* Inputs.  A timings entry is described by what the webview sends for a   *)
(* prayer: a time of day (sent as "HH:MM"), nothing, or another value.     *)

TimeOfDay(h, m) == [given |-> "time", h |-> h, m |-> m, raw |-> Undefined]
Missing == [given |-> "missing", h |-> 0, m |-> 0, raw |-> Undefined]
Other(value) == [given |-> "other", h |-> 0, m |-> 0, raw |-> value]

\* message.prayerTimes[prayer] as the extension receives it
Value(entry) == IF entry.given = "time" THEN TimeString(entry.h, entry.m) ELSE entry.raw

Values(prayerTimes) == [p \in PrayerNames |-> Value(prayerTimes[p])]

At(day, h, m, s) == day * SecPerDay + h * SecPerHour + m * SecPerMinute + s

\* The timings of two days
TimingsA ==
    [p \in PrayerNames |->
        CASE p = "Fajr" -> TimeOfDay(5, 30)
          [] p = "Dhuhr" -> TimeOfDay(12, 30)
          [] p = "Asr" -> TimeOfDay(15, 45)
          [] p = "Maghrib" -> TimeOfDay(18, 20)
          [] p = "Isha" -> TimeOfDay(23, 30)]

TimingsB ==
    [p \in PrayerNames |->
        CASE p = "Fajr" -> TimeOfDay(5, 31)
          [] p = "Dhuhr" -> TimeOfDay(12, 30)
          [] p = "Asr" -> TimeOfDay(15, 44)
          [] p = "Maghrib" -> TimeOfDay(18, 19)
          [] p = "Isha" -> TimeOfDay(19, 45)]

Without(prayerTimes, absent) ==
    [p \in PrayerNames |-> IF p \in absent THEN Missing ELSE prayerTimes[p]]

Timings == {TimingsA, TimingsB}

With(prayerTimes, prayer, entry) == [prayerTimes EXCEPT ![prayer] = entry]

\* Values that cannot be read as a time of day: the placeholder "--:--",
\* a time followed by a zone "05:30 (TZ)", and a value that is not a string
Malformed ==
    {Str(<<"-", "-", ":", "-", "-">>),
     Str(<<"0", "5", ":", "3", "0", " ", "(", "T", "Z", ")">>),
     NonZeroNumber}

\* Every subset of the prayers present, another day's timings, and one
\* malformed entry at every position
InputTimings ==
    {Without(TimingsA, absent) : absent \in SUBSET PrayerNames}
    \cup {TimingsB}
    \cup {With(TimingsA, p, Other(v)) : p \in PrayerNames, v \in Malformed}

\* The clock at the time of the call: in the morning, around a prayer time,
\* and after the last prayer of the day
InputNows ==
    {At(0, 8, 0, 0), At(0, 12, 29, 59), At(0, 12, 30, 0), At(0, 12, 30, 1),
     At(0, 23, 40, 0)}

\* The clock when the extension starts
Nows == {At(0, 8, 0, 0), At(0, 12, 30, 0)}

\* Values of islamic-shoky.prayerReminderDelay, in minutes
Delays == {0, DefaultReminderDelay, 45, 36000}

\* The values the setting is changed to while the extension runs
ChangedDelays == {0, DefaultReminderDelay}

\* Values of islamic-shoky.focusDuration and breakDuration, in minutes
FocusDurations == {1, DefaultFocusDuration}
BreakDurations == {1, DefaultBreakDuration}

\* The answers to a completion prompt: its two buttons, or none
Selections(asked) ==
    IF asked = "Start Break" THEN {"Start Break", "Skip Break", "dismissed"}
    ELSE {"Start Focus", "Later", "dismissed"}

\* What the user types into the todo field and the edit field
TodoInputs == {<<" ">>, <<"a">>, <<" ", "b">>}

\* The tasks of addTaskToList messages
TaskInputs == {[text |-> <<"c">>, completed |-> TRUE]}

\* Milliseconds between two events of the webview
Laters == {0, 1}

\* The outcomes of the spawns of one _playReminderAudio: one spawn on
\* win32 and darwin, up to one for each of the players on linux
ReminderOutcomes(pf) ==
    IF pf = "linux"
    THEN {[i \in 1..Len(ReminderPlayers) |-> "started"],
          [i \in 1..Len(ReminderPlayers) |-> "failed"],
          [i \in 1..Len(ReminderPlayers) |-> IF i = 1 THEN "throws" ELSE "started"],
          [i \in 1..Len(ReminderPlayers) |-> "throws"]}
    ELSE {<<outcome>> : outcome \in SpawnOutcomes}

\* The outcomes of the spawns of one _playQuranBackground
QuranOutcomes(pf) ==
    IF pf = "linux"
    THEN {[i \in 1..Len(LinuxAudioPlayers) |-> "started"],
          [i \in 1..Len(LinuxAudioPlayers) |-> IF i = 1 THEN "failed" ELSE "started"],
          [i \in 1..Len(LinuxAudioPlayers) |-> "throws"]}
    ELSE {<<outcome>> : outcome \in SpawnOutcomes}

----------------------------------------------------------------------------
(* The Next Prayer panel of the Explorer.  Its methods act on pp, the      *)
(* fields of the PrayerDataProvider; a Date is a number of seconds like    *)
(* the host clock, refreshAt is when the host runs the callback of         *)
(* refreshInterval next.                                                   *)

RefreshPeriodSec == 60

PanelPrayerNames == <<"Fajr", "Sunrise", "Dhuhr", "Asr", "Maghrib", "Isha">>

NoPrayerTimes == [isNull |-> TRUE, times |-> <<>>]

NoNextPrayer == [isNull |-> TRUE, name |-> "", time |-> 0]

\* new PrayerDataProvider(context) at the time now, before a location has
\* been received
NewPrayerDataProvider(now) ==
    [prayerTimes |-> NoPrayerTimes,
     nextPrayer |-> NoNextPrayer,
     currentLocation |-> Null,
     refreshInterval |-> 1,
     refreshAt |-> now + RefreshPeriodSec]

\* calculateSimplePrayerTimes(date)
CalculateSimplePrayerTimes(date) ==
    LET day == date \div SecPerDay
    IN  <<At(day, 5, 30, 0), At(day, 6, 45, 0), At(day, 12, 30, 0),
          At(day, 15, 45, 0), At(day, 18, 15, 0), At(day, 19, 30, 0)>>

\* The loop of findNextPrayer from the i-th name on
RECURSIVE NextFrom(_, _, _)
NextFrom(i, times, now) ==
    IF i > Len(PanelPrayerNames)
    THEN [isNull |-> FALSE, name |-> "Fajr",
          time |-> CalculateSimplePrayerTimes(now + SecPerDay)[1]]
    ELSE IF times[i] > now
    THEN [isNull |-> FALSE, name |-> PanelPrayerNames[i], time |-> times[i]]
    ELSE NextFrom(i + 1, times, now)

\* A plausible fault: a prayer whose time is now still counts as the next.
FindNextPrayerAtOrAfter(pp, now) ==
    IF pp.prayerTimes.isNull THEN pp
    ELSE [pp EXCEPT !.nextPrayer = NextFrom(1, pp.prayerTimes.times, now - 1)]

\* findNextPrayer(), whose new Date() is now
FindNextPrayer(pp, now) ==
    IF pp.prayerTimes.isNull THEN pp
    ELSE [pp EXCEPT !.nextPrayer = NextFrom(1, pp.prayerTimes.times, now)]

\* calculatePrayerTimes(), whose new Date() is date, followed by the one
\* of findNextPrayer
CalculatePrayerTimes(pp, date, now) ==
    IF pp.currentLocation = Null THEN pp
    ELSE FindNextPrayer(
             [pp EXCEPT !.prayerTimes =
                 [isNull |-> FALSE, times |-> CalculateSimplePrayerTimes(date)]],
             now)

\* refresh()
Refresh(pp, date, now) == CalculatePrayerTimes(pp, date, now)

\* The listener of loadLocationFromMainExtension: locationDataResponse
LocationReceived(pp, location, date, now) ==
    Refresh([pp EXCEPT !.currentLocation = location], date, now)

\* dispose()
Dispose(pp) == [pp EXCEPT !.refreshInterval = Null]

----------------------------------------------------------------------------
(* The state machine *)

Last2(ops) == IF Len(ops) > 2 THEN SubSeq(ops, Len(ops) - 1, Len(ops)) ELSE ops

\* History: an operation of the extension, and the passing of time
Did(h, name) == [h EXCEPT !.ops = Last2(Append(h.ops, name)), !.steps = @ + 1]

Passed(h) == [h EXCEPT !.ops = <<>>]

State == [map |-> prayerTimeouts, timers |-> timers, thrown |-> FALSE]

Provider ==
    [currentAudioState |-> currentAudioState,
     audioProcess |-> audioProcess,
     audioStatusCheck |-> audioStatusCheck,
     reminderInterval |-> reminderInterval,
     reminderAudioProcess |-> reminderAudioProcess,
     timers |-> timers,
     processes |-> processes,
     notifications |-> notifications,
     thrown |-> FALSE]

\* The fields of the provider, the child processes and the Notifier calls
\* after a method has run
ProviderBecomes(pv) ==
    /\ currentAudioState' = pv.currentAudioState
    /\ audioProcess' = pv.audioProcess
    /\ audioStatusCheck' = pv.audioStatusCheck
    /\ reminderInterval' = pv.reminderInterval
    /\ reminderAudioProcess' = pv.reminderAudioProcess
    /\ processes' = pv.processes
    /\ notifications' = pv.notifications

\* The settings as the extension is installed
DefaultConfig ==
    [enablePrayerNotifications |-> TRUE,
     prayerReminderDelay |-> DefaultReminderDelay,
     focusDuration |-> DefaultFocusDuration,
     breakDuration |-> DefaultBreakDuration]

Timer ==
    [p |-> timerProvider,
     live |-> countdowns.live,
     made |-> countdowns.made,
     prompts |-> prompts]

\* The pomodoro timer after a method or a callback has run
TimerBecomes(tm) ==
    /\ timerProvider' = tm.p
    /\ countdowns' = [live |-> tm.live, made |-> tm.made]
    /\ prompts' = tm.prompts

\* The webview after one of its functions has run
WebviewBecomes(wv) ==
    /\ webview' = wv.w
    /\ localStorage' = wv.storage
    /\ channel' = wv.channel

\* The providers of the Explorer panels after activate(), and the sidebar
\* webview before it is shown for the first time
PanelsConstructed ==
    /\ timerProvider = NewTimerDataProvider
    /\ countdowns = [live |-> <<>>, made |-> 0]
    /\ prompts = <<>>
    /\ tasksProvider = [tasks |-> <<>>]
    /\ webview = [loaded |-> FALSE, todos |-> <<>>, editingId |-> Null, now |-> 1]
    /\ localStorage = [islamicShokyTodos |-> NoItem]
    /\ channel = <<>>
    /\ azkar = [loaded |-> FALSE, azkarChangeDelay |-> 0,
                azkarChangeInterval |-> Null, intervals |-> <<>>]
    /\ prayerProvider = NewPrayerDataProvider(clock)

\* History: the prayer timers that existed when _clearPrayerTimeouts ran
\* are marked, and those it cancelled when they were due.
AfterClear(tbl) ==
    [h \in DOMAIN tbl |->
        IF h > Len(timers) \/ timers[h].key \notin PrayerKeys THEN tbl[h]
        ELSE [tbl[h] EXCEPT
                 !.cleared = TRUE,
                 !.dueAtClear = IF timers[h].status = "live" /\ tbl[h].status # "live"
                                THEN timers[h].fireAt <= clock
                                ELSE @]]

\* History: the timers of the ticker that existed when _stopReminderSystem
\* ran are marked.
AfterStop(tbl) ==
    [h \in DOMAIN tbl |->
        IF h <= Len(timers) /\ timers[h].key[1] = TickerKey("interval")[1]
        THEN [tbl[h] EXCEPT !.cleared = TRUE]
        ELSE tbl[h]]

\* The provider after its constructor
Constructed ==
    /\ currentAudioState = NullAudioState
    /\ audioProcess = Null
    /\ audioStatusCheck = Null
    /\ reminderInterval = Null
    /\ reminderAudioProcess = Null
    /\ processes = <<>>
    /\ ticks = <<>>

Init ==
    /\ clock \in Nows
    /\ config = DefaultConfig
    /\ prayerTimeouts = EmptyMap
    /\ timers = <<>>
    /\ notifications = <<>>
    /\ deactivated = FALSE
    /\ hist = [calls |-> 0, steps |-> 0, advances |-> 0,
               ops |-> <<>>, times |-> <<>>, nows |-> <<>>, cfgs |-> <<>>,
               thrown |-> <<>>]
    /\ platform = "linux"
    /\ Constructed
    /\ PanelsConstructed

\* The message handler of resolveWebviewView, case "prayerTimesFetched"
PrayerTimesFetched(prayerTimes) ==
    /\ ~deactivated
    /\ hist.steps < MaxOps
    /\ LET call == hist.calls + 1
           st == SchedulePrayerNotifications(State, Values(prayerTimes), clock,
                                             config, call)
       IN  /\ prayerTimeouts' = st.map
           /\ timers' = IF config.enablePrayerNotifications
                         THEN AfterClear(st.timers) ELSE st.timers
           /\ hist' = [Did(hist, "schedule") EXCEPT
                          !.calls = call,
                          !.times = Append(@, prayerTimes),
                          !.nows = Append(@, clock),
                          !.cfgs = Append(@, config),
                          !.thrown = Append(@, st.thrown)]
    /\ UNCHANGED panelVars
    /\ UNCHANGED <<clock, config, notifications, deactivated>>
    /\ UNCHANGED audioVars

\* _clearPrayerTimeouts() invoked on its own
ClearPrayerTimeoutsCall ==
    /\ ~deactivated
    /\ hist.steps < MaxOps
    /\ LET st == ClearPrayerTimeouts(State)
       IN  /\ prayerTimeouts' = st.map
           /\ timers' = AfterClear(st.timers)
    /\ hist' = Did(hist, "clear")
    /\ UNCHANGED panelVars
    /\ UNCHANGED <<clock, config, notifications, deactivated>>
    /\ UNCHANGED audioVars

\* deactivate(): "Stop reminder system", "Stop background audio", "Clear
\* all prayer notification timeouts", "Stop timer", "Clean up tasks provider"
Deactivate ==
    /\ ~deactivated
    /\ hist.steps < MaxOps
    /\ LET pv == StopBackgroundAudio(StopReminderSystem(Provider), clock)
           st == ClearPrayerTimeouts([State EXCEPT !.timers = pv.timers])
       IN  /\ prayerTimeouts' = st.map
           /\ timers' = AfterStop(AfterClear(st.timers))
           /\ ProviderBecomes(pv)
    /\ TimerBecomes(ClearOwnInterval(Timer))
    /\ prayerProvider' = Dispose(prayerProvider)
    /\ tasksProvider' = [tasksProvider EXCEPT !.tasks = <<>>]
    /\ deactivated' = TRUE
    /\ hist' = Did(hist, "deactivate")
    /\ UNCHANGED <<clock, config, platform, ticks, webview, localStorage, channel, azkar>>

\* The user changes one setting of the extension
ChangeConfiguration(setting, value) ==
    /\ ~deactivated
    /\ hist.steps < MaxOps
    /\ config' = [config EXCEPT ![setting] = value]
    /\ config' # config
    /\ hist' = Did(hist, "config")
    /\ UNCHANGED panelVars
    /\ UNCHANGED <<clock, prayerTimeouts, timers, notifications, deactivated>>
    /\ UNCHANGED audioVars

IsLive(h) == timers[h].status = "live"

IsDue(h) == IsLive(h) /\ timers[h].fireAt <= clock

\* The timers whose callback only posts a message to the webview (the
\* audio status check and the restoring of the audio state)
IsPassive(h) == timers[h].key \in {AudioStatusKey, RestoreKey}

\* A timer whose callback acts on the provider or calls the Notifier is
\* waiting
IsAhead(h) == IsLive(h) /\ ~IsPassive(h) /\ timers[h].fireAt > clock

\* Time passes until the next of these timers is due
Advance ==
    /\ hist.advances < MaxAdvances
    /\ \E h \in DOMAIN timers :
          /\ IsAhead(h)
          /\ \A g \in DOMAIN timers :
                IsAhead(g) => timers[h].fireAt <= timers[g].fireAt
          /\ clock' = timers[h].fireAt
    /\ hist' = [Passed(hist) EXCEPT !.advances = @ + 1]
    /\ UNCHANGED panelVars
    /\ UNCHANGED <<config, prayerTimeouts, timers, notifications, deactivated>>
    /\ UNCHANGED audioVars

\* The host runs its timers in the order of their fire times (registration
\* order among timers due at the same instant)
IsNextDue(h) ==
    /\ IsDue(h)
    /\ \A g \in DOMAIN timers :
          IsDue(g) => \/ timers[h].fireAt < timers[g].fireAt
                      \/ timers[h].fireAt = timers[g].fireAt /\ h <= g

\* vscode.window.showInformationMessage(...) as seen by the Notifier
Notify(h) ==
    Append(notifications, [handle |-> h, key |-> timers[h].key, at |-> clock,
                           stale |-> timers[h].cleared])

\* The host runs the callback of the next due timer of the scheduler
Fire(h) ==
    /\ IsNextDue(h)
    /\ timers[h].key[1] \in PrayerNames
    /\ LET fired == [timers EXCEPT ![h].status = "fired"]
       IN  IF timers[h].key[2] = "ended"
           \* "Prayer notification ended"
           THEN /\ notifications' = Notify(h)
                /\ timers' = fired
           \* _showPrayerNotification(prayer.name, type)
           ELSE IF ~config.enablePrayerNotifications
                THEN /\ notifications' = notifications
                     /\ timers' = fired
                ELSE /\ notifications' = Notify(h)
                     /\ timers' = SetTimeout(fired, Key(timers[h].key[1], "ended"),
                                             EndedDelaySec, clock, 0)
    /\ hist' = Passed(hist)
    /\ UNCHANGED panelVars
    /\ UNCHANGED <<clock, config, prayerTimeouts, deactivated>>
    /\ UNCHANGED audioVars

Next ==
    \/ \E prayerTimes \in Timings : PrayerTimesFetched(prayerTimes)
    \/ ClearPrayerTimeoutsCall
    \/ Deactivate
    \/ \E enable \in BOOLEAN : ChangeConfiguration("enablePrayerNotifications", enable)
    \/ \E delay \in ChangedDelays : ChangeConfiguration("prayerReminderDelay", delay)
    \/ Advance
    \/ \E h \in DOMAIN timers : Fire(h)

Spec == Init /\ [][Next]_vars

----------------------------------------------------------------------------
(* The scheduler applied to every input: one prayerTimesFetched message    *)
(* from the whole range of timings, clocks and settings, possibly followed *)
(* by the same message again, by _clearPrayerTimeouts and by deactivate.   *)

InitInputs ==
    /\ clock \in InputNows
    /\ config \in [enablePrayerNotifications : BOOLEAN, prayerReminderDelay : Delays,
                  focusDuration : {DefaultFocusDuration},
                  breakDuration : {DefaultBreakDuration}]
    /\ prayerTimeouts = EmptyMap
    /\ timers = <<>>
    /\ notifications = <<>>
    /\ deactivated = FALSE
    /\ hist = [calls |-> 0, steps |-> 0, advances |-> 0,
               ops |-> <<>>, times |-> <<>>, nows |-> <<>>, cfgs |-> <<>>,
               thrown |-> <<>>]
    /\ platform = "linux"
    /\ Constructed
    /\ PanelsConstructed

FirstFetch(prayerTimes) == hist.calls = 0 /\ PrayerTimesFetched(prayerTimes)

SameFetchAgain == hist.calls > 0 /\ PrayerTimesFetched(hist.times[hist.calls])

NextInputs ==
    \/ \E prayerTimes \in InputTimings : FirstFetch(prayerTimes)
    \/ SameFetchAgain
    \/ ClearPrayerTimeoutsCall
    \/ Deactivate

SpecInputs == InitInputs /\ [][NextInputs]_vars

----------------------------------------------------------------------------
(* The reminder ticker next to the Quran playback: the view is resolved    *)
(* (which starts the ticker), the ticker is stopped, the webview reports   *)
(* and requests playback, child processes end, time passes and the timers  *)
(* of the ticker fire.                                                     *)

InitTicker ==
    /\ clock = At(0, 8, 0, 0)
    /\ config = DefaultConfig
    /\ prayerTimeouts = EmptyMap
    /\ timers = <<>>
    /\ notifications = <<>>
    /\ deactivated = FALSE
    /\ hist = [calls |-> 0, steps |-> 0, advances |-> 0,
               ops |-> <<>>, times |-> <<>>, nows |-> <<>>, cfgs |-> <<>>,
               thrown |-> <<>>]
    /\ platform \in Platforms
    /\ Constructed
    /\ PanelsConstructed

\* resolveWebviewView(webviewView): "Restore audio state if there was one",
\* "Start 5-minute reminder system"
ResolveWebviewView ==
    /\ ~deactivated
    /\ hist.steps < MaxTickerOps
    /\ LET restoring == IF currentAudioState.isNull THEN timers
                        ELSE SetTimeout(timers, RestoreKey, RestoreDelaySec, clock, 0)
           pv == StartReminderSystem([Provider EXCEPT !.timers = restoring], clock)
       IN  /\ timers' = pv.timers
           /\ ProviderBecomes(pv)
    /\ hist' = Did(hist, "resolve")
    /\ UNCHANGED panelVars
    /\ UNCHANGED <<clock, config, prayerTimeouts, deactivated, platform, ticks>>

\* _stopReminderSystem() invoked on its own
StopReminderSystemCall ==
    /\ ~deactivated
    /\ hist.steps < MaxTickerOps
    /\ LET pv == StopReminderSystem(Provider)
       IN  /\ timers' = AfterStop(pv.timers)
           /\ ProviderBecomes(pv)
    /\ hist' = Did(hist, "stop")
    /\ UNCHANGED panelVars
    /\ UNCHANGED <<clock, config, prayerTimeouts, deactivated, platform, ticks>>

\* The message handler of resolveWebviewView, case "quranAudioStarted"
QuranAudioStarted ==
    /\ ~deactivated
    /\ hist.steps < MaxTickerOps
    /\ currentAudioState' = PlayingState(FALSE)
    /\ hist' = Did(hist, "quranAudioStarted")
    /\ UNCHANGED panelVars
    /\ UNCHANGED <<clock, config, prayerTimeouts, timers, notifications, deactivated,
                   platform, audioProcess, audioStatusCheck, reminderInterval,
                   reminderAudioProcess, processes, ticks>>

\* The message handler, case "quranAudioStopped"
QuranAudioStopped ==
    /\ ~deactivated
    /\ hist.steps < MaxTickerOps
    /\ LET pv == StopBackgroundAudio(
                     [Provider EXCEPT !.currentAudioState = NullAudioState], clock)
       IN  /\ timers' = pv.timers
           /\ ProviderBecomes(pv)
    /\ hist' = Did(hist, "quranAudioStopped")
    /\ UNCHANGED panelVars
    /\ UNCHANGED <<clock, config, prayerTimeouts, deactivated, platform, ticks>>

\* The message handler, case "playQuranBackground"
PlayQuranBackgroundMessage(outcomes) ==
    /\ ~deactivated
    /\ hist.steps < MaxTickerOps
    /\ LET pv == PlayQuranBackground(Provider, outcomes, clock, platform)
       IN  /\ timers' = pv.timers
           /\ ProviderBecomes(pv)
    /\ hist' = Did(hist, "playQuranBackground")
    /\ UNCHANGED panelVars
    /\ UNCHANGED <<clock, config, prayerTimeouts, deactivated, platform, ticks>>

\* The message handler, case "stopQuranBackground"
StopQuranBackgroundMessage ==
    /\ ~deactivated
    /\ hist.steps < MaxTickerOps
    /\ LET pv == StopBackgroundAudio(Provider, clock)
       IN  /\ timers' = pv.timers
           /\ ProviderBecomes(pv)
    /\ hist' = Did(hist, "stopQuranBackground")
    /\ UNCHANGED panelVars
    /\ UNCHANGED <<clock, config, prayerTimeouts, deactivated, platform, ticks>>

\* The listeners of a child process are closures over the provider: they
\* reset its fields whichever process the event comes from.
\* on("close") of _setupAudioProcessHandlers and of _playReminderAudio
CloseListener(pv, p, now) ==
    IF ~pv.processes[p].listeners THEN pv
    ELSE IF pv.processes[p].kind = "reminder"
    THEN [pv EXCEPT !.reminderAudioProcess = Null]
    ELSE [pv EXCEPT !.audioProcess = Null,
                    !.currentAudioState = NullAudioState,
                    !.notifications = IF pv.processes[p].status = "running"
                                      THEN Inform(@, <<"Quran", "completed">>, now)
                                      ELSE @]

\* on("error") of _setupAudioProcessHandlers and of _playReminderAudio
ErrorListener(pv, p, now) ==
    IF ~pv.processes[p].listeners THEN pv
    ELSE IF pv.processes[p].kind = "reminder"
    THEN [pv EXCEPT !.reminderAudioProcess = Null]
    ELSE FallbackToWebviewAudio([pv EXCEPT !.audioProcess = Null], now)

\* A child process ends (by itself, killed, or after its 'error' event)
ProcessClose(p) ==
    /\ processes[p].status \in {"running", "killed", "errored"}
    /\ hist.steps < MaxTickerOps
    /\ LET pv == CloseListener(Provider, p, clock)
       IN  /\ ProviderBecomes([pv EXCEPT !.processes[p].status = "closed"])
    /\ hist' = Did(hist, "close")
    /\ UNCHANGED panelVars
    /\ UNCHANGED <<clock, config, prayerTimeouts, timers, deactivated, platform, ticks>>

\* A child process whose program could not be started emits 'error'
ProcessError(p) ==
    /\ processes[p].status = "failed"
    /\ hist.steps < MaxTickerOps
    /\ LET pv == ErrorListener(Provider, p, clock)
       IN  /\ ProviderBecomes([pv EXCEPT !.processes[p].status = "errored"])
    /\ hist' = Did(hist, "error")
    /\ UNCHANGED panelVars
    /\ UNCHANGED <<clock, config, prayerTimeouts, timers, deactivated, platform, ticks>>

\* A timer that has fired: an interval is due again one period later
Fired(tbl, h, periodSec, now) ==
    IF tbl[h].key[2] = "interval" THEN [tbl EXCEPT ![h].fireAt = now + periodSec]
    ELSE [tbl EXCEPT ![h].status = "fired"]

\* The host runs the callback of the next due timer of the ticker, the
\* interval or the timeout of _startReminderSystem
Tick(h, outcomes) ==
    /\ IsNextDue(h)
    /\ timers[h].key \in {TickerKey("interval"), TickerKey("timeout")}
    /\ Len(ticks) < MaxTicks
    /\ LET pv == PlayReminderIfQuranNotActive(
                     [Provider EXCEPT
                         !.timers = Fired(timers, h, ReminderIntervalSec, clock)],
                     outcomes, clock, platform)
       IN  /\ timers' = pv.timers
           /\ ProviderBecomes(pv)
           /\ ticks' = Append(ticks,
                  [handle |-> h,
                   due |-> timers[h].fireAt,
                   at |-> clock,
                   audioState |-> currentAudioState,
                   process |-> audioProcess,
                   notified |-> Len(pv.notifications) - Len(notifications),
                   cues |-> Len(pv.processes) - Len(processes),
                   cueStarted |-> /\ pv.reminderAudioProcess # Null
                                  /\ pv.processes[pv.reminderAudioProcess].status
                                         = "running",
                   stale |-> timers[h].cleared,
                   thrown |-> pv.thrown])
    /\ hist' = Passed(hist)
    /\ UNCHANGED panelVars
    /\ UNCHANGED <<clock, config, prayerTimeouts, deactivated, platform>>

\* The host runs the callback of the next due timer that only posts a
\* message to the webview
FirePassive(h) ==
    /\ IsNextDue(h)
    /\ IsPassive(h)
    /\ timers' = Fired(timers, h, AudioStatusPeriodSec, clock)
    /\ hist' = Passed(hist)
    /\ UNCHANGED panelVars
    /\ UNCHANGED <<clock, config, prayerTimeouts, notifications, deactivated>>
    /\ UNCHANGED audioVars

NextTicker ==
    \/ ResolveWebviewView
    \/ StopReminderSystemCall
    \/ Deactivate
    \/ QuranAudioStarted
    \/ QuranAudioStopped
    \/ \E outcomes \in QuranOutcomes(platform) : PlayQuranBackgroundMessage(outcomes)
    \/ StopQuranBackgroundMessage
    \/ \E p \in DOMAIN processes : ProcessClose(p)
    \/ \E p \in DOMAIN processes : ProcessError(p)
    \/ Advance
    \/ \E h \in DOMAIN timers :
          \E outcomes \in ReminderOutcomes(platform) : Tick(h, outcomes)
    \/ \E h \in DOMAIN timers : FirePassive(h)

SpecTicker == InitTicker /\ [][NextTicker]_vars

----------------------------------------------------------------------------
(* The Explorer pomodoro timer as a state machine: the timer commands, the *)
(* changes of the duration settings, the callbacks of the intervals, the   *)
(* answers to the completion prompts and deactivate.                       *)

InitPanels ==
    /\ clock = At(0, 8, 0, 0)
    /\ config = DefaultConfig
    /\ prayerTimeouts = EmptyMap
    /\ timers = <<>>
    /\ notifications = <<>>
    /\ deactivated = FALSE
    /\ hist = [calls |-> 0, steps |-> 0, advances |-> 0,
               ops |-> <<>>, times |-> <<>>, nows |-> <<>>, cfgs |-> <<>>,
               thrown |-> <<>>]
    /\ platform = "linux"
    /\ Constructed
    /\ PanelsConstructed

\* A command, a setting change or an answer handled next to the pomodoro
\* timer leaves the rest of the extension alone
BesideTimer(name) ==
    /\ ~deactivated
    /\ hist.steps < MaxOps
    /\ hist' = Did(hist, name)
    /\ UNCHANGED <<clock, prayerTimeouts, timers, notifications, deactivated>>
    /\ UNCHANGED audioVars
    /\ UNCHANGED todoVars
    /\ UNCHANGED <<azkar, prayerProvider>>

\* Command islamic-shoky.timer.start
StartTimerCommand ==
    /\ BesideTimer("startTimer")
    /\ TimerBecomes(StartTimer(Timer, config))
    /\ UNCHANGED config

\* Command islamic-shoky.timer.pause
PauseTimerCommand ==
    /\ BesideTimer("pauseTimer")
    /\ TimerBecomes(PauseTimer(Timer))
    /\ UNCHANGED config

\* Command islamic-shoky.timer.stop
StopTimerCommand ==
    /\ BesideTimer("stopTimer")
    /\ TimerBecomes(StopTimer(Timer, config))
    /\ UNCHANGED config

\* onDidChangeConfiguration after the user has changed focusDuration or
\* breakDuration: timerProvider.resetTimer()
ChangeDuration(setting, minutes) ==
    /\ BesideTimer("duration")
    /\ config' = [config EXCEPT ![setting] = minutes]
    /\ config' # config
    /\ TimerBecomes(ResetTimer(Timer, config'))

\* The user picks a button of a completion prompt or dismisses it
AnswerPrompt(i, selection) ==
    /\ BesideTimer("answer")
    /\ i \in DOMAIN prompts
    /\ TimerBecomes(PromptAnswered(Timer, i, selection, config))
    /\ UNCHANGED config

\* Time passes between two events
BetweenEvents ==
    /\ hist' = Passed(hist)
    /\ UNCHANGED <<clock, config, prayerTimeouts, timers, notifications, deactivated>>
    /\ UNCHANGED audioVars
    /\ UNCHANGED todoVars
    /\ UNCHANGED <<azkar, prayerProvider>>

\* A second passes for the interval whose turn it is: its callback runs
CountdownTick ==
    /\ countdowns.live # <<>>
    /\ hist.advances < MaxCallbacks
    /\ TimerBecomes(IntervalCallback(Timer))
    /\ hist' = [Passed(hist) EXCEPT !.advances = @ + 1]
    /\ UNCHANGED <<clock, config, prayerTimeouts, timers, notifications, deactivated>>
    /\ UNCHANGED audioVars
    /\ UNCHANGED todoVars
    /\ UNCHANGED <<azkar, prayerProvider>>

\* Whole seconds pass, each interval running its callback once a second,
\* for as long as no callback brings remainingTime to 0
Countdown ==
    /\ countdowns.live # <<>>
    /\ timerProvider.remainingTime > Len(countdowns.live)
    /\ timerProvider' =
           [timerProvider EXCEPT !.remainingTime =
               ((@ - 1) % Len(countdowns.live)) + 1]
    /\ UNCHANGED <<countdowns, prompts>>
    /\ BetweenEvents

NextPomodoro ==
    \/ StartTimerCommand
    \/ PauseTimerCommand
    \/ StopTimerCommand
    \/ \E minutes \in FocusDurations : ChangeDuration("focusDuration", minutes)
    \/ \E minutes \in BreakDurations : ChangeDuration("breakDuration", minutes)
    \/ \E i \in DOMAIN prompts : \E selection \in Selections(prompts[i]) :
          AnswerPrompt(i, selection)
    \/ CountdownTick
    \/ Countdown
    \/ Deactivate

SpecPomodoro == InitPanels /\ [][NextPomodoro]_vars

----------------------------------------------------------------------------
(* The todo list as a state machine: the webview starts and restarts, the  *)
(* user and the extension's messages change the list, and the extension    *)
(* handles the messages of the webview in the order of their posting.      *)

\* An event handled by the webview leaves the extension alone
InWebview(name) ==
    /\ ~deactivated
    /\ hist.steps < MaxTodoOps
    /\ hist' = Did(hist, name)
    /\ UNCHANGED <<clock, config, prayerTimeouts, timers, notifications, deactivated>>
    /\ UNCHANGED audioVars
    /\ UNCHANGED timerVars
    /\ UNCHANGED <<tasksProvider, azkar, prayerProvider>>

\* The webview as the event starts, `later` milliseconds after the last one
WebviewAt(later) ==
    [w |-> [webview EXCEPT !.now = @ + later],
     storage |-> localStorage,
     channel |-> channel]

TodoIds == {webview.todos[i].id : i \in DOMAIN webview.todos}

\* The webview is created or created again: its script starts
LoadWebview(later) ==
    /\ InWebview("load")
    /\ WebviewBecomes(WebviewLoaded(localStorage, channel, webview.now + later))

AddTodoClick(input, later) ==
    /\ webview.loaded
    /\ InWebview("addTodo")
    /\ WebviewBecomes(AddTodo(WebviewAt(later), input))

ToggleTodoClick(id) ==
    /\ webview.loaded
    /\ InWebview("toggleTodo")
    /\ WebviewBecomes(ToggleTodo(WebviewAt(1), id))

\* The row being edited has no delete button
DeleteTodoClick(id) ==
    /\ webview.loaded
    /\ id # webview.editingId
    /\ InWebview("deleteTodo")
    /\ WebviewBecomes(DeleteTodo(WebviewAt(1), id))

EditTodoClick(id) ==
    /\ webview.loaded
    /\ id # webview.editingId
    /\ InWebview("editTodo")
    /\ WebviewBecomes(EditTodo(WebviewAt(1), id))

\* The save button and the edit field exist in the row being edited
SaveEditClick(input) ==
    /\ webview.loaded
    /\ webview.editingId \in TodoIds
    /\ InWebview("saveEdit")
    /\ WebviewBecomes(SaveEdit(WebviewAt(1), webview.editingId, input))

CancelEditClick ==
    /\ webview.loaded
    /\ webview.editingId \in TodoIds
    /\ InWebview("cancelEdit")
    /\ WebviewBecomes(CancelEdit(WebviewAt(1)))

ClearCompletedClick ==
    /\ webview.loaded
    /\ InWebview("clearCompleted")
    /\ WebviewBecomes(ClearCompleted(WebviewAt(1)))

AddTaskToListMessage(task, later) ==
    /\ webview.loaded
    /\ InWebview("addTaskToList")
    /\ WebviewBecomes(AddTaskToList(WebviewAt(later), task))

ToggleTaskInListMessage(taskId) ==
    /\ webview.loaded
    /\ InWebview("toggleTaskInList")
    /\ WebviewBecomes(ToggleTaskInList(WebviewAt(1), taskId))

DeleteTaskFromListMessage(taskId) ==
    /\ webview.loaded
    /\ InWebview("deleteTaskFromList")
    /\ WebviewBecomes(DeleteTaskFromList(WebviewAt(1), taskId))

\* The message handler of resolveWebviewView, cases "tasksUpdated" and
\* "tasksDataResponse", on the oldest message of the webview
TasksUpdated ==
    /\ ~deactivated
    /\ channel # <<>>
    /\ tasksProvider' = ForwardTasksToTasksProvider(tasksProvider, Head(channel))
    /\ channel' = Tail(channel)
    /\ UNCHANGED <<clock, config, prayerTimeouts, timers, notifications, deactivated,
                   hist, webview, localStorage, azkar, prayerProvider>>
    /\ UNCHANGED audioVars
    /\ UNCHANGED timerVars

NextTodos ==
    \/ \E later \in Laters : LoadWebview(later)
    \/ \E input \in TodoInputs, later \in Laters : AddTodoClick(input, later)
    \/ \E id \in TodoIds : ToggleTodoClick(id)
    \/ \E id \in TodoIds : DeleteTodoClick(id)
    \/ \E id \in TodoIds : EditTodoClick(id)
    \/ \E input \in TodoInputs : SaveEditClick(input)
    \/ CancelEditClick
    \/ ClearCompletedClick
    \/ \E task \in TaskInputs, later \in Laters : AddTaskToListMessage(task, later)
    \/ \E taskId \in TodoIds : ToggleTaskInListMessage(taskId)
    \/ \E taskId \in TodoIds : DeleteTaskFromListMessage(taskId)
    \/ TasksUpdated
    \/ Deactivate

SpecTodos == InitPanels /\ [][NextTodos]_vars

----------------------------------------------------------------------------
(* Properties *)

LastOp == IF hist.ops = <<>> THEN "none" ELSE hist.ops[Len(hist.ops)]

LiveWithKey(key) == {h \in DOMAIN timers : IsLive(h) /\ timers[h].key = key}

LiveOfKind(kind) == {h \in DOMAIN timers : IsLive(h) /\ timers[h].key[2] = kind}

PendingPrayerTimers == {h \in DOMAIN timers : IsLive(h) /\ timers[h].key \in PrayerKeys}

RegisteredBy(call) == {h \in DOMAIN timers : timers[h].call = call}

RegisteredFor(call, key) == {h \in RegisteredBy(call) : timers[h].key = key}

\* C1: at most one live (not fired, not cancelled) timer exists for each key
\* `${prayer}_prayer` and `${prayer}_reminder`, in every reachable state.
AtMostOneLiveTimerPerKey ==
    \A key \in PrayerKeys : Cardinality(LiveWithKey(key)) <= 1

\* A second scheduling has replaced the timer of a key: the timer of the
\* first call is cancelled and the one of the second call is live.
ReplacedTimerWitness ==
    \E h, g \in DOMAIN timers :
        /\ timers[h].key = timers[g].key
        /\ timers[h].key \in PrayerKeys
        /\ timers[h].call = 1 /\ timers[h].status = "cancelled"
        /\ timers[g].call = 2 /\ timers[g].status = "live"

\* C2: when an invocation of _schedulePrayerNotifications has returned, no
\* timer registered by an earlier invocation is live, whatever the value of
\* enablePrayerNotifications at the time of the call.
ScheduleCancelsEarlierTimers ==
    LastOp = "schedule" =>
        \A h \in DOMAIN timers :
            timers[h].call \in 1..(hist.calls - 1) => ~IsLive(h)

\* C3: no prayer or reminder callback invokes the Notifier once
\* _clearPrayerTimeouts has run after the registration of its timer.
NoStaleFireAfterClear ==
    \A i \in DOMAIN notifications :
        notifications[i].key \in PrayerKeys => ~notifications[i].stale

\* _clearPrayerTimeouts has cancelled a timer that was due, after the
\* host had run the callback of another timer and the Notifier was called.
ClearedDueTimerWitness ==
    /\ \E h \in DOMAIN timers :
          /\ timers[h].key \in PrayerKeys
          /\ timers[h].status = "cancelled"
          /\ timers[h].dueAtClear
    /\ notifications # <<>>

\* The calls of _schedulePrayerNotifications that scheduled (notifications
\* enabled) and returned normally
Scheduled(call) ==
    /\ call \in 1..hist.calls
    /\ hist.cfgs[call].enablePrayerNotifications
    /\ ~hist.thrown[call]

SecondsOfDay(entry) == entry.h * SecPerHour + entry.m * SecPerMinute

\* C4: for every prayer with a valid time of day and every now, the fire
\* time of its `_prayer` timer is the first instant strictly after now that
\* falls on that hour:minute: today when that is after now, one day later
\* when it is at or before now.
PrayerTimerIsNextOccurrence ==
    \A call \in 1..hist.calls, p \in PrayerNames :
        (Scheduled(call) /\ hist.times[call][p].given = "time") =>
            /\ Cardinality(RegisteredFor(call, Key(p, "prayer"))) = 1
            /\ \A h \in RegisteredFor(call, Key(p, "prayer")) :
                  /\ timers[h].fireAt > hist.nows[call]
                  /\ timers[h].fireAt - hist.nows[call] <= SecPerDay
                  /\ timers[h].fireAt % SecPerDay = SecondsOfDay(hist.times[call][p])

\* At 08:00 with Fajr at 05:30 and Dhuhr at 12:30, Fajr is scheduled for
\* tomorrow 05:30 and Dhuhr for today 12:30.
MorningScheduleWitness ==
    /\ hist.calls >= 1
    /\ hist.nows[1] = At(0, 8, 0, 0)
    /\ \E h \in RegisteredFor(1, Key("Fajr", "prayer")) :
          timers[h].fireAt = At(1, 5, 30, 0)
    /\ \E h \in RegisteredFor(1, Key("Dhuhr", "prayer")) :
          timers[h].fireAt = At(0, 12, 30, 0)

\* C5: for every prayer that gets a `_prayer` timer and every delay d >= 0,
\* the fire time of the `_reminder` timer is the fire time of the prayer
\* timer plus exactly d minutes.
ReminderIsPrayerPlusDelay ==
    \A call \in 1..hist.calls, p \in PrayerNames :
        \A h \in RegisteredFor(call, Key(p, "prayer")) :
            /\ Cardinality(RegisteredFor(call, Key(p, "reminder"))) = 1
            /\ \A g \in RegisteredFor(call, Key(p, "reminder")) :
                  timers[g].fireAt =
                      timers[h].fireAt
                          + hist.cfgs[call].prayerReminderDelay * SecPerMinute

\* C6: _schedulePrayerNotifications followed immediately by
\* _clearPrayerTimeouts leaves no pending prayer or reminder timer and an
\* empty _prayerTimeouts map.
ScheduleThenClearLeavesNothing ==
    hist.ops = <<"schedule", "clear">> =>
        /\ PendingPrayerTimers = {}
        /\ prayerTimeouts = EmptyMap

\* The scheduling registered the ten timers of a full day and the clear
\* that followed cancelled them.
ScheduleThenClearWitness ==
    /\ hist.ops = <<"schedule", "clear">>
    /\ Cardinality({h \in RegisteredBy(hist.calls) :
                        timers[h].status = "cancelled"}) = 2 * Len(Prayers)

\* C7: two calls of _schedulePrayerNotifications in succession with the
\* same prayer times leave at most five live `_prayer` timers and at most
\* five live `_reminder` timers, and no live timer of the first call.
RescheduleLeavesNoStaleTimers ==
    (/\ hist.ops = <<"schedule", "schedule">>
     /\ hist.times[hist.calls] = hist.times[hist.calls - 1]) =>
        /\ Cardinality(LiveOfKind("prayer")) <= Len(Prayers)
        /\ Cardinality(LiveOfKind("reminder")) <= Len(Prayers)
        /\ \A h \in RegisteredBy(hist.calls - 1) : ~IsLive(h)

\* Both calls registered ten timers; those of the second call are live.
RescheduleWitness ==
    /\ hist.ops = <<"schedule", "schedule">>
    /\ hist.times[hist.calls] = hist.times[hist.calls - 1]
    /\ Cardinality(RegisteredBy(hist.calls - 1)) = 2 * Len(Prayers)
    /\ Cardinality(LiveOfKind("prayer")) = Len(Prayers)
    /\ Cardinality(LiveOfKind("reminder")) = Len(Prayers)

\* The host's timers without the history fields
Visible(tbl) ==
    [h \in DOMAIN tbl |->
        [key |-> tbl[h].key, fireAt |-> tbl[h].fireAt, status |-> tbl[h].status]]

\* A step that runs _clearPrayerTimeouts on its own or from deactivate
ClearStep ==
    /\ hist'.steps = hist.steps + 1
    /\ hist'.ops[Len(hist'.ops)] \in {"clear", "deactivate"}

\* C8: _clearPrayerTimeouts always ends with an empty map and no live
\* prayer or reminder timer, and changes nothing when the map is already
\* empty (nothing scheduled, or a second call in a row), also after timers
\* have fired.
ClearIsIdempotent ==
    [][ClearStep =>
          /\ prayerTimeouts' = EmptyMap
          /\ \A h \in DOMAIN timers' :
                timers'[h].key \in PrayerKeys => timers'[h].status # "live"
          /\ prayerTimeouts = EmptyMap => Visible(timers') = Visible(timers)]_vars

\* _clearPrayerTimeouts has run twice in a row after a prayer timer had
\* fired.
ClearTwiceWitness ==
    /\ hist.ops = <<"clear", "clear">>
    /\ \E h \in DOMAIN timers :
          timers[h].key \in PrayerKeys /\ timers[h].status = "fired"

\* C9: when the time of one prayer cannot be parsed, every other prayer
\* with a valid time still gets its `_prayer` and `_reminder` timers,
\* wherever the malformed entry stands in the Fajr..Isha order.
MalformedPrayerIsIsolated ==
    \A call \in 1..hist.calls, p \in PrayerNames :
        (/\ hist.cfgs[call].enablePrayerNotifications
         /\ hist.times[call][p].given = "time") =>
            /\ RegisteredFor(call, Key(p, "prayer")) # {}
            /\ RegisteredFor(call, Key(p, "reminder")) # {}

PresentKeys(call) ==
    {Key(p, kind) : p \in {q \in PrayerNames : hist.times[call][q].given = "time"},
                    kind \in {"prayer", "reminder"}}

\* C10: for every subset of the five prayers present in the timings, the
\* timers registered are exactly those of the present prayers, and a
\* missing entry raises no error.
MissingPrayersAreSkipped ==
    \A call \in 1..hist.calls :
        (/\ hist.cfgs[call].enablePrayerNotifications
         /\ \A p \in PrayerNames : hist.times[call][p].given \in {"time", "missing"}) =>
            /\ ~hist.thrown[call]
            /\ {timers[h].key : h \in RegisteredBy(call)} = PresentKeys(call)
            /\ Cardinality(RegisteredBy(call)) = Cardinality(PresentKeys(call))
            /\ call = hist.calls /\ LastOp = "schedule"
                   => DOMAIN prayerTimeouts = PresentKeys(call)

\* Fajr and Maghrib are missing: the three other prayers have their six
\* timers and the map has no entry for the missing ones.
MissingPrayersWitness ==
    /\ LastOp = "schedule"
    /\ hist.cfgs[hist.calls].enablePrayerNotifications
    /\ hist.times[hist.calls] = Without(TimingsA, {"Fajr", "Maghrib"})
    /\ Cardinality(PendingPrayerTimers) = 6
    /\ Key("Fajr", "prayer") \notin DOMAIN prayerTimeouts
    /\ Key("Asr", "reminder") \in DOMAIN prayerTimeouts

\* C11: none of the public operations _schedulePrayerNotifications,
\* _clearPrayerTimeouts, _startReminderSystem and _stopReminderSystem, and
\* no callback of the ticker, lets an exception escape to its caller,
\* whatever the timings hold (non-string values included) and whether or
\* not the audio cue can be spawned.
NoExceptionEscapes ==
    /\ \A call \in 1..hist.calls : ~hist.thrown[call]
    /\ \A i \in DOMAIN ticks : ~ticks[i].thrown

\* C12: each (prayer, kind) slot follows the cycle unscheduled -> scheduled
\* -> (fired | cancelled) -> unscheduled: a key of _prayerTimeouts maps to
\* a timer that is still waiting (once the timer has fired or has been
\* cancelled its key maps to no handle), and a timer is registered for a
\* key only when every earlier timer of that key has fired or has been
\* cancelled.
SlotsFollowCycle ==
    /\ \A key \in DOMAIN prayerTimeouts : IsLive(prayerTimeouts[key])
    /\ \A h, g \in DOMAIN timers :
          (h < g /\ timers[h].key = timers[g].key /\ timers[h].key \in PrayerKeys)
              => ~IsLive(h)

\* The timers of the ticker of one kind ("interval" or "timeout")
TickerTimers(kind) == {h \in DOMAIN timers : timers[h].key = TickerKey(kind)}

\* C13: after any number of invocations of _startReminderSystem (one for
\* each resolveWebviewView) at most one repeating reminder timer is live:
\* a new invocation replaces the repeating timer of the previous one.
AtMostOneRepeatingTimer ==
    Cardinality({h \in TickerTimers("interval") : IsLive(h)}) <= 1

\* C14: once _stopReminderSystem has returned, no callback of a timer that
\* an earlier _startReminderSystem created runs any more, and when it
\* returns no reminder cue is in flight (_reminderAudioProcess is null and
\* no reminder process is running).
NoTickAfterStop ==
    /\ \A i \in DOMAIN ticks : ~ticks[i].stale
    /\ LastOp \in {"stop", "deactivate"} =>
          /\ reminderAudioProcess = Null
          /\ reminderInterval = Null
          /\ \A p \in DOMAIN processes :
                processes[p].kind = "reminder" => processes[p].status # "running"

\* The state of the playback that the tick read
ActiveAt(i) == QuranActive(ticks[i].audioState, ticks[i].process)

\* C15: on every tick at which the audio-is-playing flag is true (the
\* playback state is set and a background audio process is tracked),
\* neither the Notifier nor the audio cue is invoked: the tick makes no
\* Notifier call and spawns no process.
ActiveTickIsSuppressed ==
    \A i \in DOMAIN ticks :
        ActiveAt(i) => ticks[i].notified = 0 /\ ticks[i].cues = 0

\* The ticker has run while a background playback was going on, after the
\* Notifier had announced that playback, and has added nothing.
SuppressedTickWitness ==
    \E i \in DOMAIN ticks :
        /\ ActiveAt(i)
        /\ ticks[i].notified = 0
        /\ ticks[i].cues = 0
        /\ \E n \in DOMAIN notifications :
              notifications[n].key = <<"Quran", "playing">>
        /\ \A p \in DOMAIN processes : processes[p].kind = "quran"

\* C16: on every tick at which the audio-is-playing flag is false the
\* Notifier is called exactly once and at most one audio cue process is
\* spawned, whether or not the cue could be started.
InactiveTickNotifiesOnce ==
    \A i \in DOMAIN ticks :
        ~ActiveAt(i) => ticks[i].notified = 1 /\ ticks[i].cues <= 1

\* C17: when the audio cue cannot be started on a tick (the player is not
\* found, spawn throws, or no process results), the tick still delivers
\* the textual notification to the Notifier and raises no error.
FailedCueStillNotifies ==
    \A i \in DOMAIN ticks :
        (~ActiveAt(i) /\ ~ticks[i].cueStarted) =>
            ticks[i].notified = 1 /\ ~ticks[i].thrown

\* C18: after a single _startReminderSystem the check of the ticker runs
\* once for each 5-minute interval: the callbacks run are due at multiples
\* of 5 minutes after the start, and no two of them are due at the same
\* multiple.
OneTickPerInterval ==
    Cardinality(TickerTimers("interval")) = 1 =>
        \A i, j \in DOMAIN ticks :
            /\ (ticks[i].due - timers[ticks[i].handle].regAt) % ReminderIntervalSec = 0
            /\ ticks[i].due > timers[ticks[i].handle].regAt
            /\ ticks[i].due = ticks[j].due => i = j

\* The foreground-audio flag: _currentAudioState and _audioProcess
AudioFlag == <<currentAudioState, audioProcess>>

\* A listener of a child process of the given kind has run
ListenerStep(kind) ==
    \E p \in DOMAIN processes :
        /\ processes[p].kind = kind
        /\ processes'[p].status # processes[p].status
        /\ processes'[p].status \in {"closed", "errored"}

OperationStep(names) ==
    /\ hist'.steps = hist.steps + 1
    /\ hist'.ops[Len(hist'.ops)] \in names

\* A step of the ticker: _startReminderSystem (from resolveWebviewView),
\* _stopReminderSystem, a tick with its _playReminderAudio and
\* _stopReminderAudio, or a listener of a reminder cue process
TickerStep ==
    \/ ticks' # ticks
    \/ OperationStep({"resolve", "stop"})
    \/ ListenerStep("reminder")

\* A step of the Quran playback: one of its messages, deactivate (which
\* calls _stopBackgroundAudio), or a listener of a playback process
PlaybackStep ==
    \/ OperationStep({"quranAudioStarted", "quranAudioStopped",
                      "playQuranBackground", "stopQuranBackground", "deactivate"})
    \/ ListenerStep("quran")

\* C19: the foreground-audio flag is read-only for the ticker: every step
\* of the ticker leaves _currentAudioState and _audioProcess unchanged, and
\* every step that changes them is a step of the Quran playback.
TickerOnlyReadsAudioFlag ==
    [][/\ TickerStep => AudioFlag' = AudioFlag
       /\ AudioFlag' # AudioFlag => PlaybackStep]_vars

\* The webview has reported playback, the ticker has run, stopped its
\* previous cue and started a new one, and the playback state is as the
\* webview left it.
TickerBesidePlaybackWitness ==
    /\ Len(ticks) = 2
    /\ \A i \in DOMAIN ticks :
          ticks[i].audioState = PlayingState(FALSE) /\ ticks[i].cues = 1
    /\ \E p \in DOMAIN processes : processes[p].status = "killed"
    /\ currentAudioState = PlayingState(FALSE)
    /\ reminderAudioProcess # Null

\* The calls of _schedulePrayerNotifications made with a reminder delay of
\* 0 minutes and notifications enabled
ZeroDelayCalls ==
    {call \in 1..hist.calls :
        /\ hist.cfgs[call].enablePrayerNotifications
        /\ hist.cfgs[call].prayerReminderDelay = 0}

\* C20 as stated: when the configured reminder delay is 0 minutes,
\* _schedulePrayerNotifications registers no `_reminder` timer for any
\* prayer.
NoReminderTimerAtZeroDelay ==
    \A call \in ZeroDelayCalls :
        \A h \in RegisteredBy(call) : timers[h].key[2] # "reminder"

\* C20 as amended: when the configured reminder delay is 0 minutes,
\* _schedulePrayerNotifications registers, for every prayer that gets a
\* `_prayer` timer, one `_reminder` timer with the same fire time, and no
\* `_reminder` timer for a prayer without a `_prayer` timer.
ZeroDelayReminderCoincides ==
    \A call \in ZeroDelayCalls, p \in PrayerNames :
        /\ Cardinality(RegisteredFor(call, Key(p, "reminder")))
               = Cardinality(RegisteredFor(call, Key(p, "prayer")))
        /\ Cardinality(RegisteredFor(call, Key(p, "prayer"))) <= 1
        /\ \A h \in RegisteredFor(call, Key(p, "prayer")),
              g \in RegisteredFor(call, Key(p, "reminder")) :
                 /\ timers[g].fireAt = timers[h].fireAt
                 /\ h < g

\* With a delay of 0 at 08:00 and all five prayers given, the call has
\* registered five reminder timers; the one of Dhuhr is due at 12:30 with
\* the prayer timer.
ZeroDelayWitness ==
    /\ 1 \in ZeroDelayCalls
    /\ hist.nows[1] = At(0, 8, 0, 0)
    /\ Cardinality({h \in RegisteredBy(1) : timers[h].key[2] = "reminder"})
           = Len(Prayers)
    /\ \E g \in RegisteredFor(1, Key("Dhuhr", "reminder")) :
          timers[g].fireAt = At(0, 12, 30, 0)

----------------------------------------------------------------------------
(* The scheduler followed through its timers: one prayerTimesFetched       *)
(* message under every value of the reminder delay, then the timers fire   *)
(* as the clock reaches them.                                              *)

InitOrder ==
    /\ clock \in Nows
    /\ config \in [enablePrayerNotifications : {TRUE}, prayerReminderDelay : Delays,
                  focusDuration : {DefaultFocusDuration},
                  breakDuration : {DefaultBreakDuration}]
    /\ prayerTimeouts = EmptyMap
    /\ timers = <<>>
    /\ notifications = <<>>
    /\ deactivated = FALSE
    /\ hist = [calls |-> 0, steps |-> 0, advances |-> 0,
               ops |-> <<>>, times |-> <<>>, nows |-> <<>>, cfgs |-> <<>>,
               thrown |-> <<>>]
    /\ platform = "linux"
    /\ Constructed
    /\ PanelsConstructed

NextOrder ==
    \/ \E prayerTimes \in Timings : FirstFetch(prayerTimes)
    \/ Advance
    \/ \E h \in DOMAIN timers : Fire(h)

SpecOrder == InitOrder /\ [][NextOrder]_vars

\* The callback of timer h runs in this step
Fires(h) == h \in DOMAIN timers /\ timers[h].status = "live" /\ timers'[h].status = "fired"

\* C21: events fire in the order of their fire times: when the reminder
\* timer of a prayer fires, the prayer timer registered with it by the same
\* invocation has fired already, for d > 0 and, by registration order, for
\* d = 0.
PrayerFiresBeforeReminder ==
    [][\A g \in DOMAIN timers :
          Fires(g) /\ timers[g].key[2] = "reminder" =>
              \A h \in RegisteredFor(timers[g].call, Key(timers[g].key[1], "prayer")) :
                  timers[h].status = "fired"]_vars

\* The Notifier calls and the timers added by this step
NewNotifications == {i \in DOMAIN notifications' : i > Len(notifications)}

NewTimers == {h \in DOMAIN timers' : h > Len(timers)}

\* C23: while enablePrayerNotifications is false no prayer or reminder
\* notification is shown and no prayer or reminder timer is registered, by
\* _schedulePrayerNotifications or by an earlier timer that fires.
DisabledShowsNothing ==
    [][~config.enablePrayerNotifications =>
          /\ \A i \in NewNotifications : notifications'[i].key \notin PrayerKeys
          /\ \A h \in NewTimers : timers'[h].key \notin PrayerKeys]_vars

\* A timer registered while the setting was on has fired with the setting
\* off and has shown nothing, and a prayerTimesFetched message received with
\* the setting off has registered nothing.
DisabledWitness ==
    /\ ~config.enablePrayerNotifications
    /\ \E h \in DOMAIN timers :
          /\ timers[h].key \in PrayerKeys
          /\ timers[h].status = "fired"
          /\ \A i \in DOMAIN notifications : notifications[i].handle # h
    /\ \E c \in 1..hist.calls :
          /\ ~hist.cfgs[c].enablePrayerNotifications
          /\ RegisteredBy(c) = {}

\* The reminder timers still waiting whose prayer notification has been
\* shown: the timers registered by the same invocation for the same prayer,
\* under the delay that is still configured
AwaitedReminders ==
    {g \in DOMAIN timers :
        /\ IsLive(g)
        /\ timers[g].key[2] = "reminder"
        /\ timers[g].call > 0
        /\ hist.cfgs[timers[g].call].prayerReminderDelay = config.prayerReminderDelay
        /\ \E i \in DOMAIN notifications :
              /\ notifications[i].handle \in
                     RegisteredFor(timers[g].call, Key(timers[g].key[1], "prayer"))
              /\ ~notifications[i].stale}

\* C24: a prayer notification that has fired is followed by the reminder of
\* that prayer prayerReminderDelay minutes later, also when
\* _schedulePrayerNotifications runs again in between: with notifications
\* enabled, a prayerTimesFetched message leaves a live reminder timer of the
\* same prayer due at the same time.
ReminderSurvivesReschedule ==
    [][(/\ hist'.calls = hist.calls + 1
        /\ config.enablePrayerNotifications) =>
          \A g \in AwaitedReminders :
              \E r \in DOMAIN timers' :
                  /\ timers'[r].status = "live"
                  /\ timers'[r].key = timers[g].key
                  /\ timers'[r].fireAt = timers[g].fireAt]_vars

\* The Quran was playing when tick i ran: by a background process, or by
\* the webview's own player after the fallback
PlayingAt(i) ==
    /\ ~ticks[i].audioState.isNull
    /\ ticks[i].audioState.isPlaying
    /\ ticks[i].process # Null \/ ticks[i].audioState.isWebviewFallback

\* C25: a tick that finds the Quran playing in either mode (background
\* process, or webview fallback with _currentAudioState set and no process)
\* is suppressed: no reminder notification and no reminder cue.
PlayingTickIsSuppressed ==
    \A i \in DOMAIN ticks :
        PlayingAt(i) => ticks[i].notified = 0 /\ ticks[i].cues = 0

----------------------------------------------------------------------------
(* Properties of the Explorer panels *)

\* A callback of a pomodoro interval runs in this step and brings the
\* running countdown to 0
CountdownReachesZero ==
    /\ hist'.advances = hist.advances + 1
    /\ timerProvider.isRunning
    /\ timerProvider.remainingTime = 1

\* No interval of the pomodoro timer is left to decrement remainingTime
CountdownStopped == ~timerProvider.isRunning /\ countdowns.live = <<>>

\* C28: when a running Focus countdown reaches 0 the countdown stops,
\* pomodoroCount grows by exactly 1 and timerType becomes Break; when a
\* running Break countdown reaches 0 the countdown stops, timerType becomes
\* Focus and pomodoroCount is unchanged; pomodoroCount never decreases.
SessionCycle ==
    [][/\ timerProvider'.pomodoroCount >= timerProvider.pomodoroCount
       /\ CountdownReachesZero /\ timerProvider.timerType = "Focus" =>
             /\ CountdownStopped'
             /\ timerProvider'.pomodoroCount = timerProvider.pomodoroCount + 1
             /\ timerProvider'.timerType = "Break"
       /\ CountdownReachesZero /\ timerProvider.timerType = "Break" =>
             /\ CountdownStopped'
             /\ timerProvider'.pomodoroCount = timerProvider.pomodoroCount
             /\ timerProvider'.timerType = "Focus"]_vars

\* The same with "the countdown stops" read as the fields of the provider
\* only: isRunning is false and this.interval is null
SessionCycleOfFields ==
    [][/\ timerProvider'.pomodoroCount >= timerProvider.pomodoroCount
       /\ CountdownReachesZero =>
             /\ ~timerProvider'.isRunning
             /\ timerProvider'.interval = Null
             /\ timerProvider'.timerType =
                    (IF timerProvider.timerType = "Focus" THEN "Break" ELSE "Focus")
             /\ timerProvider'.pomodoroCount = timerProvider.pomodoroCount +
                    (IF timerProvider.timerType = "Focus" THEN 1 ELSE 0)]_vars

\* C29: at most one countdown interval is live and this.interval refers to
\* it, after any sequence of startTimer, pauseTimer, stopTimer, ticks,
\* completions and answers to the completion prompts.
AtMostOneCountdown ==
    /\ Len(countdowns.live) <= 1
    /\ countdowns.live # <<>> => timerProvider.interval = countdowns.live[1]

\* C30: 0 <= remainingTime <= totalTime in every reachable state.
RemainingWithinTotal ==
    /\ 0 <= timerProvider.remainingTime
    /\ timerProvider.remainingTime <= timerProvider.totalTime

\* The list that loadTodos would restore from localStorage
StoredTodos ==
    IF localStorage.islamicShokyTodos.isNull THEN <<>>
    ELSE Parse(localStorage.islamicShokyTodos.text)

\* C26: after every todo operation of the webview the list stored under
\* islamicShokyTodos equals the todos in memory, and loadTodos after a
\* reload restores exactly the last list.
TodosSurviveReload ==
    [][/\ webview'.loaded => StoredTodos' = webview'.todos
       /\ webview.loaded /\ LastOp' = "load" /\ hist'.steps > hist.steps =>
             webview'.todos = webview.todos]_vars

\* The webview has been created again after a todo was added, and shows it
ReloadedTodosWitness ==
    /\ LastOp = "load"
    /\ hist.steps > 1
    /\ webview.todos # <<>>
    /\ StoredTodos = webview.todos

\* The tasks of the Explorer panel change in this step: updateTasks takes
\* over the oldest message of the webview
TasksChangeInUpdateTasks ==
    tasksProvider' # tasksProvider =>
        /\ channel # <<>>
        /\ channel' = Tail(channel)
        /\ tasksProvider' = UpdateTasks(tasksProvider, Parse(Head(channel).tasks))

\* Every message of the webview has been handled and the mirror shows the
\* todos of the webview
MirrorWhenDelivered ==
    webview.loaded /\ channel = <<>> => tasksProvider.tasks = webview.todos

\* deactivate() empties the tasks of the Explorer panel in this step
DeactivateEmptiesTasks ==
    ~deactivated /\ deactivated' /\ tasksProvider'.tasks = <<>>

\* C27 as claimed: TasksDataProvider.tasks changes only in updateTasks, and
\* once the tasksUpdated messages of the webview's todo operations are
\* delivered it equals the todos of the webview.
ReadOnlyMirror ==
    [][TasksChangeInUpdateTasks]_vars /\ [](MirrorWhenDelivered)

\* C27: TasksDataProvider.tasks changes only in updateTasks or when
\* deactivate() empties it, and until deactivate() it equals the todos of
\* the webview once the tasksUpdated messages are delivered.
ReadOnlyMirrorUntilDeactivate ==
    /\ [][TasksChangeInUpdateTasks \/ DeactivateEmptiesTasks]_vars
    /\ [](~deactivated => MirrorWhenDelivered)

\* A todo was added and toggled or edited in the webview, its messages are
\* delivered and the Explorer panel shows it
MirrorWitness ==
    /\ ~deactivated
    /\ webview.loaded
    /\ channel = <<>>
    /\ hist.steps > 2
    /\ tasksProvider.tasks # <<>>
    /\ tasksProvider.tasks = webview.todos

\* C22: after deactivate() has returned no timer created by the extension
\* host is live: no one-shot or interval of the scheduler, of the ticker or
\* of the playback, and no interval of the pomodoro timer.
NoTimerSurvivesDeactivate ==
    deactivated =>
        /\ \A h \in DOMAIN timers : ~IsLive(h)
        /\ countdowns.live = <<>>

\* The command `name` is handled in this step
CommandStep(name) == hist'.steps = hist.steps + 1 /\ LastOp' = name

\* Time passes in this step: callbacks of the pomodoro intervals run
CallbackStep == hist'.steps = hist.steps /\ timerProvider' # timerProvider

\* C31: pauseTimer acts only on a running timer: it sets isRunning = false
\* and isPaused = true, cancels the interval and leaves remainingTime,
\* totalTime, timerType and pomodoroCount alone, and nothing counts
\* remainingTime down while the timer is paused; on a timer that is not
\* running it changes nothing.  stopTimer ends with isRunning = false,
\* isPaused = false, no interval and remainingTime = totalTime, the
\* duration of the current timerType.
PauseAndStopFrame ==
    [][/\ CommandStep("pauseTimer") /\ timerProvider.isRunning =>
             /\ timerProvider' = [timerProvider EXCEPT !.isRunning = FALSE,
                                                       !.isPaused = TRUE,
                                                       !.interval = Null]
             /\ countdowns'.live = <<>>
       /\ CommandStep("pauseTimer") /\ ~timerProvider.isRunning =>
             UNCHANGED timerVars
       /\ timerProvider.isPaused /\ CallbackStep =>
             timerProvider'.remainingTime = timerProvider.remainingTime
       /\ CommandStep("stopTimer") =>
             /\ ~timerProvider'.isRunning
             /\ ~timerProvider'.isPaused
             /\ timerProvider'.interval = Null
             /\ countdowns'.live = <<>>
             /\ timerProvider'.remainingTime = timerProvider'.totalTime
             /\ timerProvider'.totalTime = SecPerMinute *
                    (IF timerProvider'.timerType = "Focus"
                     THEN config.focusDuration ELSE config.breakDuration)]_vars

\* The same for the fields of the provider alone, without the intervals of
\* the host
PauseAndStopFrameOfFields ==
    [][/\ CommandStep("pauseTimer") /\ timerProvider.isRunning =>
             timerProvider' = [timerProvider EXCEPT !.isRunning = FALSE,
                                                    !.isPaused = TRUE,
                                                    !.interval = Null]
       /\ CommandStep("pauseTimer") /\ ~timerProvider.isRunning =>
             timerProvider' = timerProvider
       /\ CommandStep("stopTimer") =>
             /\ ~timerProvider'.isRunning
             /\ ~timerProvider'.isPaused
             /\ timerProvider'.interval = Null
             /\ timerProvider'.remainingTime = timerProvider'.totalTime]_vars

----------------------------------------------------------------------------
(* The Quran playback on its own: the webview requests and reports         *)
(* playback and the child processes end, in any order.                     *)

InitPlayback ==
    /\ clock = At(0, 8, 0, 0)
    /\ config = DefaultConfig
    /\ prayerTimeouts = EmptyMap
    /\ timers = <<>>
    /\ notifications = <<>>
    /\ deactivated = FALSE
    /\ hist = [calls |-> 0, steps |-> 0, advances |-> 0,
               ops |-> <<>>, times |-> <<>>, nows |-> <<>>, cfgs |-> <<>>,
               thrown |-> <<>>]
    /\ platform \in Platforms
    /\ Constructed
    /\ PanelsConstructed

\* One event of the playback is handled and leaves the provider as pv
PlaybackEvent(name, pv) ==
    /\ hist.steps < MaxPlaybackOps
    /\ timers' = pv.timers
    /\ ProviderBecomes(pv)
    /\ hist' = Did(hist, name)
    /\ UNCHANGED panelVars
    /\ UNCHANGED <<clock, config, prayerTimeouts, deactivated, platform, ticks>>

\* The message handler, case "playQuranBackground"
PlayRequested(outcomes) ==
    PlaybackEvent("playQuranBackground",
                  PlayQuranBackground(Provider, outcomes, clock, platform))

\* The message handler, case "stopQuranBackground"
StopRequested ==
    PlaybackEvent("stopQuranBackground", StopBackgroundAudio(Provider, clock))

\* The message handler, case "quranAudioStarted"
StartReported ==
    PlaybackEvent("quranAudioStarted",
                  [Provider EXCEPT !.currentAudioState = PlayingState(FALSE)])

\* The message handler, case "quranAudioStopped"
StopReported ==
    PlaybackEvent("quranAudioStopped",
                  StopBackgroundAudio(
                      [Provider EXCEPT !.currentAudioState = NullAudioState], clock))

\* A child process ends (by itself, killed, or after its 'error' event)
Closes(p) ==
    /\ processes[p].status \in {"running", "killed", "errored"}
    /\ PlaybackEvent("close",
                     [CloseListener(Provider, p, clock)
                          EXCEPT !.processes[p].status = "closed"])

\* A child process whose program could not be started emits 'error'
Errors(p) ==
    /\ processes[p].status = "failed"
    /\ PlaybackEvent("error",
                     [ErrorListener(Provider, p, clock)
                          EXCEPT !.processes[p].status = "errored"])

NextPlayback ==
    \/ \E outcomes \in QuranOutcomes(platform) : PlayRequested(outcomes)
    \/ StopRequested
    \/ StartReported
    \/ StopReported
    \/ \E p \in DOMAIN processes : Closes(p)
    \/ \E p \in DOMAIN processes : Errors(p)

SpecPlayback == InitPlayback /\ [][NextPlayback]_vars

\* The background Quran processes that are running
AliveQuran ==
    {p \in DOMAIN processes :
        processes[p].kind = "quran" /\ processes[p].status = "running"}

\* C32: while a background Quran process started by _playQuranBackground is
\* running, _audioProcess refers to it and _currentAudioState is not null;
\* the late 'close' or 'error' of a process that was killed and replaced
\* does not clear the state of the newer playback.
RunningPlaybackIsTracked ==
    \A p \in AliveQuran : audioProcess = p /\ ~currentAudioState.isNull

\* C33: at most one background Quran process is alive at any time, and no
\* spawned process is alive without being referenced by _audioProcess.
AtMostOneQuranProcess ==
    /\ Cardinality(AliveQuran) <= 1
    /\ \A p \in AliveQuran : audioProcess = p

\* Two background Quran processes are alive at the same time
TwoQuranProcessesAlive == Cardinality(AliveQuran) >= 2

\* C34: after a stopQuranBackground or quranAudioStopped message has been
\* handled, _audioProcess is null and _currentAudioState is null, in
\* webview-fallback mode and after the process has exited as well.
StoppedAfterStopMessage ==
    [][\A name \in {"stopQuranBackground", "quranAudioStopped"} :
          CommandStep(name) =>
              audioProcess' = Null /\ currentAudioState'.isNull]_vars

\* The same for the quranAudioStopped message alone
StoppedAfterStopReport ==
    [][CommandStep("quranAudioStopped") =>
          audioProcess' = Null /\ currentAudioState'.isNull]_vars

\* The audio status check intervals that are live
LiveStatusChecks == {h \in DOMAIN timers : IsLive(h) /\ timers[h].key = AudioStatusKey}

\* No playback is recorded and no background Quran process is running
PlaybackEnded ==
    currentAudioState.isNull /\ audioProcess = Null /\ AliveQuran = {}

\* C35: at most one audio status check interval is live at any time, and
\* none is live once playback has ended.
AtMostOneStatusCheck ==
    /\ Cardinality(LiveStatusChecks) <= 1
    /\ PlaybackEnded => LiveStatusChecks = {}

\* Two audio status check intervals are live at the same time
TwoStatusChecksLive == Cardinality(LiveStatusChecks) >= 2

----------------------------------------------------------------------------
(* The azkar rotation of the script of the sidebar webview.  Its functions *)
(* act on az: whether the script has started, extensionConfig's            *)
(* azkarChangeDelay (kept in seconds, so that a delay below one minute is  *)
(* a whole number), azkarChangeInterval, and the intervals the script has  *)
(* created in the webview.                                                 *)

TestIntervalSec == 10

\* The values of the setting azkarChangeDelay, in seconds: negative, zero,
\* below one minute, one minute and the default of 30 minutes
AzkarDelays == {0 - SecPerMinute, 0, 30, SecPerMinute, 30 * SecPerMinute}

\* azkarChangeInterval = setInterval(() => changeAzkarRandomly(), period)
SetAzkarInterval(az, periodSec) ==
    [az EXCEPT !.intervals = Append(@, [live |-> TRUE, periodSec |-> periodSec]),
               !.azkarChangeInterval = Len(az.intervals) + 1]

\* if (azkarChangeInterval) { clearInterval(...); azkarChangeInterval = null }
ClearAzkarInterval(az) ==
    IF az.azkarChangeInterval = Null THEN az
    ELSE [az EXCEPT !.intervals[az.azkarChangeInterval].live = FALSE,
                    !.azkarChangeInterval = Null]

\* initializeAzkar()
InitializeAzkar(az) ==
    IF az.azkarChangeDelay > 0
    THEN SetAzkarInterval(az, IF az.azkarChangeDelay < SecPerMinute
                              THEN TestIntervalSec ELSE az.azkarChangeDelay)
    ELSE az

\* A plausible fault: the interval is started again without clearing the
\* one that exists.
RestartKeepingInterval(az) ==
    IF az.azkarChangeDelay > 0 THEN SetAzkarInterval(az, az.azkarChangeDelay)
    ELSE az

\* restartAzkarInterval()
RestartAzkarInterval(az) ==
    LET cleared == ClearAzkarInterval(az)
    IN  IF cleared.azkarChangeDelay > 0
        THEN SetAzkarInterval(cleared, cleared.azkarChangeDelay)
        ELSE cleared

\* The script of the webview starts in a new document: "Initialize"
AzkarScriptStarts(delay) ==
    InitializeAzkar([loaded |-> TRUE, azkarChangeDelay |-> delay,
                     azkarChangeInterval |-> Null, intervals |-> <<>>])

\* The message listener of the webview, case 'configUpdated'
ConfigUpdated(az, delay) ==
    RestartAzkarInterval([az EXCEPT !.azkarChangeDelay = delay])

\* The message listener of the webview, case 'cleanup'
Cleanup(az) == ClearAzkarInterval(az)

\* An event handled by the azkar rotation leaves the rest alone
InAzkar(name) ==
    /\ ~deactivated
    /\ hist.steps < MaxAzkarOps
    /\ hist' = Did(hist, name)
    /\ UNCHANGED <<clock, config, prayerTimeouts, timers, notifications, deactivated>>
    /\ UNCHANGED audioVars
    /\ UNCHANGED timerVars
    /\ UNCHANGED todoVars
    /\ UNCHANGED prayerProvider

\* The webview is shown: its script starts and calls initializeAzkar()
AzkarLoaded(delay) ==
    /\ ~azkar.loaded
    /\ InAzkar("initializeAzkar")
    /\ azkar' = AzkarScriptStarts(delay)

\* The extension posts 'configUpdated' with the settings
ConfigUpdatedMessage(delay) ==
    /\ azkar.loaded
    /\ InAzkar("configUpdated")
    /\ azkar' = ConfigUpdated(azkar, delay)

\* The extension posts 'cleanup'
CleanupMessage ==
    /\ azkar.loaded
    /\ InAzkar("cleanup")
    /\ azkar' = Cleanup(azkar)

NextAzkar ==
    \/ \E delay \in AzkarDelays : AzkarLoaded(delay)
    \/ \E delay \in AzkarDelays : ConfigUpdatedMessage(delay)
    \/ CleanupMessage

SpecAzkar == InitPanels /\ [][NextAzkar]_vars

\* The azkar rotation intervals that are live
LiveAzkarIntervals == {h \in DOMAIN azkar.intervals : azkar.intervals[h].live}

\* C36: after initializeAzkar (once) and any sequence of configUpdated and
\* cleanup messages at most one azkar rotation interval is live; none is
\* live when azkarChangeDelay <= 0 or right after cleanup, and
\* restartAzkarInterval cancels the previous interval before it creates
\* the next.
AtMostOneAzkarInterval ==
    /\ [](Cardinality(LiveAzkarIntervals) <= 1)
    /\ [](azkar.azkarChangeDelay <= 0 => LiveAzkarIntervals = {})
    /\ [][/\ CommandStep("cleanup") => \A h \in DOMAIN azkar'.intervals :
                                          ~azkar'.intervals[h].live
          /\ CommandStep("configUpdated") =>
                 \A h \in LiveAzkarIntervals : ~azkar'.intervals[h].live]_vars

\* configUpdated has replaced a live interval by a new one
AzkarRestartWitness ==
    /\ LastOp = "configUpdated"
    /\ Len(azkar.intervals) >= 2
    /\ ~azkar.intervals[Len(azkar.intervals) - 1].live
    /\ azkar.intervals[Len(azkar.intervals)].live
    /\ azkar.azkarChangeInterval = Len(azkar.intervals)

\* C37: in the webview todo list editingId is always null or the id of a
\* task present in todos, and so editTodo on an existing task is never
\* blocked for good.
EditingIdIsPresent ==
    webview.editingId = Null \/ webview.editingId \in TodoIds

----------------------------------------------------------------------------
(* The Next Prayer panel as a state machine: a location arrives, the panel *)
(* is refreshed by its command and by its interval, time passes between    *)
(* refreshes and while one runs.                                           *)

\* The times of day of calculateSimplePrayerTimes
PanelEntries ==
    {[name |-> "Fajr", h |-> 5, m |-> 30], [name |-> "Sunrise", h |-> 6, m |-> 45],
     [name |-> "Dhuhr", h |-> 12, m |-> 30], [name |-> "Asr", h |-> 15, m |-> 45],
     [name |-> "Maghrib", h |-> 18, m |-> 15], [name |-> "Isha", h |-> 19, m |-> 30]}

\* The clock when the extension is activated: a second before, at and a
\* second after each prayer of the panel, at midnight, and in the last
\* minute of the day
PanelNows ==
    {At(0, e.h, e.m, 0) + d - 1 : e \in PanelEntries, d \in 0..2}
        \cup {At(0, 0, 0, 0), At(0, 23, 59, 0), At(0, 23, 59, 59)}

\* The seconds that pass between the new Date() of calculatePrayerTimes and
\* the new Date() of findNextPrayer
Elapsed == {0, 1}

InitPrayerPanel ==
    /\ clock \in PanelNows
    /\ config = DefaultConfig
    /\ prayerTimeouts = EmptyMap
    /\ timers = <<>>
    /\ notifications = <<>>
    /\ deactivated = FALSE
    /\ hist = [calls |-> 0, steps |-> 0, advances |-> 0,
               ops |-> <<>>, times |-> <<>>, nows |-> <<>>, cfgs |-> <<>>,
               thrown |-> <<>>]
    /\ platform = "linux"
    /\ Constructed
    /\ PanelsConstructed

\* An event handled by the Next Prayer panel leaves the rest alone
InPrayerPanel(name) ==
    /\ ~deactivated
    /\ hist.steps < MaxPanelOps
    /\ hist' = Did(hist, name)
    /\ UNCHANGED <<config, prayerTimeouts, timers, notifications, deactivated>>
    /\ UNCHANGED audioVars
    /\ UNCHANGED timerVars
    /\ UNCHANGED todoVars
    /\ UNCHANGED azkar

\* The webview answers getLocationData with a location
LocationDataResponse(elapsed) ==
    /\ prayerProvider.currentLocation = Null
    /\ InPrayerPanel("locationDataResponse")
    /\ clock' = clock + elapsed
    /\ prayerProvider' = LocationReceived(prayerProvider, 1, clock, clock')

\* Command islamic-shoky.prayer.refresh
RefreshCommand(elapsed) ==
    /\ InPrayerPanel("refresh")
    /\ clock' = clock + elapsed
    /\ prayerProvider' = Refresh(prayerProvider, clock, clock')

\* Time passes until the callback of refreshInterval is due
UntilRefresh ==
    /\ prayerProvider.refreshInterval # Null
    /\ clock < prayerProvider.refreshAt
    /\ hist.advances < MaxAdvances
    /\ clock' = prayerProvider.refreshAt
    /\ hist' = [Passed(hist) EXCEPT !.advances = @ + 1]
    /\ UNCHANGED <<config, prayerTimeouts, timers, notifications, deactivated>>
    /\ UNCHANGED audioVars
    /\ UNCHANGED panelVars

\* The callback of refreshInterval (startAutoRefresh)
AutoRefresh(elapsed) ==
    /\ prayerProvider.refreshInterval # Null
    /\ clock >= prayerProvider.refreshAt
    /\ InPrayerPanel("autoRefresh")
    /\ clock' = clock + elapsed
    /\ prayerProvider' = [Refresh(prayerProvider, clock, clock')
                             EXCEPT !.refreshAt = @ + RefreshPeriodSec]

NextPrayerPanel ==
    \/ \E elapsed \in Elapsed : LocationDataResponse(elapsed)
    \/ \E elapsed \in Elapsed : RefreshCommand(elapsed)
    \/ UntilRefresh
    \/ \E elapsed \in Elapsed : AutoRefresh(elapsed)
    \/ Deactivate

SpecPrayerPanel == InitPrayerPanel /\ [][NextPrayerPanel]_vars

\* A refresh of the Next Prayer panel runs in this step
RefreshStep ==
    \E name \in {"locationDataResponse", "refresh", "autoRefresh"} : CommandStep(name)

AtPrayerTimeWitness ==
    /\ LastOp \in {"locationDataResponse", "refresh", "autoRefresh"}
    /\ clock = At(clock \div SecPerDay, 12, 30, 0)
    /\ ~prayerProvider.nextPrayer.isNull
    /\ prayerProvider.nextPrayer.name = "Asr"

====
